---- MODULE Spec2Model ----
(***************************************************************************)
(* Model of the tenant lifecycle controller (orchestrator): registry,      *)
(* wake lock, orchestration client, wake pipeline, idle controller,        *)
(* drift reconciler and the administrative API.                            *)
(*                                                                         *)
(* Every I/O boundary of the Go code (a registry call, a lock call, an     *)
(* orchestration call) is one atomic step; the steps of concurrently       *)
(* running handlers and loops interleave freely.                           *)
(***************************************************************************)
EXTENDS Integers, Sequences, FiniteSets, TLC

\* ---------------------------------------------------------------- bounds
\* The clock runs from 0 to MaxTime ticks.
MaxTime == 2
\* At most MaxPods tenant pod incarnations are created per tenant.
MaxPods == 2
\* Other writers change the warm-pool Deployment until its version is MaxVersion.
MaxVersion == 3

\* ------------------------------------------------------------ parameters
Tenants == {"alice"}
Wakers == {"w1", "w2"}
WarmPodIds == {"wp1"}
\* the warm pods of a pool of two
PoolIds == {"wp1", "wp2"}
Replicas == {"r1", "r2"}
\* idle_timeout_s values sent with POST /tenants and with PATCH /tenants/{id}
IdleInputs == {0, 900}
PatchInputs == {900}
\* clients of the administrative API and the bot tokens they send
Clients == {"c1", "c2"}
Tokens == {"tokA", "tokB"}
\* One clock tick is five minutes; durations are in seconds as in the code.
TickSeconds == 5 * 60

\* ------------------------------------------------------ program constants
StatusProvisioning == "provisioning"
StatusRunning == "running"
StatusIdle == "idle"
StatusTerminated == "terminated"
\* Config.Namespace (K8S_NAMESPACE default)
Namespace == "tenants"
\* IdleTimeoutS assigned by the wake auto-create and by POST /tenants on 0
DefaultIdleTimeoutS == 300
\* checkIdleTenants: ListIdleTenants(ctx, 5*time.Minute)
PreFilterSeconds == 5 * 60
\* checkIdleTenants: the timeout used when IdleTimeoutS is 0
FallbackTimeoutSeconds == 5 * 60
\* grace periods handed to DeletePod by checkIdleTenants and by DELETE
IdleGraceSeconds == 30
DeleteGraceSeconds == 30
\* leader election of the lifecycle controller, in seconds
LeaseDuration == 15
\* A faulty election configured with a renew deadline beyond the lease duration.
RenewDeadlineLong == LeaseDuration + 5
RenewDeadline == 10
RetryPeriod == 2
\* period of the ticker of runIdleLoop, in seconds
IdleTickSeconds == 30

VARIABLES
    now,      \* wall clock, in ticks
    reg,      \* registry: tenant id -> record (ex = FALSE: no item)
    lock,     \* wake lock keys: tenant id -> [held, by]
    pods,     \* tenant pods in the cluster (set of pod objects)
    podSeq,   \* number of pod incarnations created so far, per tenant
    pvc,      \* tenant id -> volume (PV + PVC) exists
    wpod,     \* warm pods: id -> "absent" | "true" | "consuming" | "deleted"
    wk,       \* wake calls: waker -> local state of wakeOrGet
    window,   \* waker -> its call acquired the lock and that TTL has not elapsed
    calls,    \* waker -> create-pod calls received during its TTL window (0..2)
    idl,      \* idle controller (leader): local state of checkIdleTenants
    rcl,      \* reconciler of each replica: local state of reconcile
    adm,      \* DELETE /tenants/{id} handler: local state
    cache,    \* address cache router:endpoint:<id>: tenant id -> address, or ""
    lease,    \* Lease "orchestrator-leader": holder identity, or ""
    el,       \* leader election and idle loop of each replica
    rt,       \* router: goroutine -> local state of webhookHandler and handleTelegramUpdate
    api,      \* client -> the last response it received from the administrative API
    hook,     \* bot token -> tenant id its webhook at the messaging platform names, or ""
    wdep,     \* the warm-pool Deployment object
    wmgr,     \* warm-pool manager of each replica: local state of reconcile
    cset      \* tenant id -> time of the latest Set of its address-cache entry

vars == <<now, reg, lock, pods, podSeq, pvc, wpod, wk, window, calls, idl, rcl, adm, cache,
          lease, el, rt, api, hook, wdep, wmgr, cset>>

\* ---------------------------------------------------------------- registry
NoRec ==
    [ex |-> FALSE, status |-> "", pod_name |-> "", pod_ip |-> "",
     ns |-> "", la |-> 0, idle |-> 0, tok |-> ""]

\* GetTenant: the item, or NoRec (nil) when there is none
GetTenant(r, t) == r[t]

\* A faulty CreateTenant whose PutItem has no condition expression.
CreateTenantOverwrite(r, t, rec) == [r EXCEPT ![t] = rec]

\* CreateTenant: PutItem conditional on attribute_not_exists(tenant_id)
CreateTenant(r, t, rec) ==
    IF r[t].ex THEN r ELSE [r EXCEPT ![t] = rec]

\* A faulty UpdateStatus whose update expression leaves out empty attributes,
\* so that an empty pod name or address keeps the stored one.
UpdateStatusOmitEmpty(r, t, status, podName, podIP, ts) ==
    [r EXCEPT ![t] = [@ EXCEPT !.ex = TRUE, !.status = status,
                               !.pod_name = IF podName = "" THEN @ ELSE podName,
                               !.pod_ip = IF podIP = "" THEN @ ELSE podIP,
                               !.la = ts]]

\* UpdateStatus: unconditional UpdateItem (creates the item when absent),
\* SET status, pod_name, pod_ip, last_active_at = now
UpdateStatus(r, t, status, podName, podIP, ts) ==
    [r EXCEPT ![t] = [@ EXCEPT !.ex = TRUE, !.status = status,
                               !.pod_name = podName, !.pod_ip = podIP,
                               !.la = ts]]

\* UpdateActivity: unconditional UpdateItem, SET last_active_at = now
UpdateActivity(r, t, ts) ==
    [r EXCEPT ![t] = [@ EXCEPT !.ex = TRUE, !.la = ts]]

\* UpdateIdleTimeout: UpdateItem conditional on attribute_exists(tenant_id)
UpdateIdleTimeout(r, t, v) ==
    IF r[t].ex THEN [r EXCEPT ![t].idle = v] ELSE r

\* A faulty ListByStatus whose scan has no filter expression.
ListByStatusNoFilter(r, status) ==
    {t \in Tenants : r[t].ex}

\* ListByStatus: scan with filter status = :status
ListByStatus(r, status) ==
    {t \in Tenants : r[t].ex /\ r[t].status = status}

\* ListIdleTenants: scan with filter status = running AND last_active_at < cutoff
ListIdleTenants(r, olderThan, ts) ==
    {t \in Tenants : /\ r[t].ex
                     /\ r[t].status = StatusRunning
                     /\ r[t].la * TickSeconds < ts * TickSeconds - olderThan}

\* DeleteTenant: unconditional DeleteItem
DeleteTenant(r, t) == [r EXCEPT ![t] = NoRec]

\* ------------------------------------------------------------- wake lock
NoLock == [held |-> FALSE, by |-> "none"]

\* AcquireWakeLock: SET key NX EX ttl; TRUE iff the key was absent
AcquireWakeLock(l, t) == ~l[t].held

\* ReleaseWakeLock: DEL key
ReleaseWakeLock(l, t) == [l EXCEPT ![t] = NoLock]

\* ---------------------------------------------------- orchestration client
podName(t) == "zeroclaw-" \o t

IPs == <<"10.0.0.1", "10.0.0.2", "10.0.0.3", "10.0.0.4">>
NodeOf(p) == "node-" \o p

PodsNamed(ps, name) == {p \in ps : p.name = name}
PodsOfTenant(ps, t) == {p \in ps : p.tenant = t}

\* A faulty CreateTenantPod that lets the platform generate the pod name, so
\* that no create call ever meets an existing name.
CreateTenantPodGenerated(ps, t, nodeName, uid) ==
    ps \cup {[name |-> podName(t) \o "-" \o ToString(uid), tenant |-> t,
              uid |-> uid, phase |-> "Pending", ip |-> "", node |-> nodeName,
              term |-> FALSE, ev |-> FALSE]}

\* CreateTenantPod: Create; on AlreadyExists the existing pod is returned
CreateTenantPod(ps, t, nodeName, uid) ==
    IF PodsNamed(ps, podName(t)) # {}
    THEN ps
    ELSE ps \cup {[name |-> podName(t), tenant |-> t, uid |-> uid,
                   phase |-> "Pending", ip |-> "", node |-> nodeName,
                   term |-> FALSE, ev |-> FALSE]}

\* WaitPodReady's poll condition: Get succeeded, phase Running, PodIP set
PodReady(ps, t) ==
    {p \in PodsNamed(ps, podName(t)) : p.phase = "Running" /\ p.ip # ""}

\* DeletePod: with a grace period the pod is marked terminating and stays
\* until its containers have stopped; with grace 0 it is removed at once.
\* NotFound is success.
DeletePod(ps, name, ns, grace) ==
    IF ns # Namespace THEN ps
    ELSE IF grace = 0 THEN ps \ PodsNamed(ps, name)
    ELSE {IF p.name = name THEN [p EXCEPT !.term = TRUE] ELSE p : p \in ps}

\* PodExists: Get by name; terminating pods still exist
PodExists(ps, name) == PodsNamed(ps, name) # {}

\* History: ev marks the terminating pod that the idle controller deleted.
MarkEvicted(ps, name, ns) ==
    IF ns # Namespace THEN ps
    ELSE {IF p.name = name /\ p.term THEN [p EXCEPT !.ev = TRUE] ELSE p : p \in ps}

\* the incarnation of the pod of t that the idle controller deleted and that
\* is still terminating (0: there is none)
EvictedUid(ps, t) ==
    IF \E p \in PodsOfTenant(ps, t) : p.ev
    THEN (CHOOSE p \in PodsOfTenant(ps, t) : p.ev).uid
    ELSE 0

\* --------------------------------------------------------- wake pipeline
\* Locals of wakeOrGet, and three history fields: path records how the call
\* got past the lock ("fast", "lock" or "poll"), created whether its
\* CreateTenant stored the record, ev the incarnation of the pod that the idle
\* controller had deleted and that was still terminating when the call read
\* an Idle record (0: none).
WkIdle ==
    [pc |-> "idle", t |-> "", recNil |-> FALSE, node |-> "",
     cands |-> <<>>, warm |-> "", ip |-> "", res |-> "", path |-> "",
     created |-> FALSE, ev |-> 0]

\* a create-pod call for a tenant is counted in every open TTL window
CountCall(t) ==
    [w \in Wakers |->
        IF window[w] /\ wk[w].t = t /\ calls[w] < 2 THEN calls[w] + 1
        ELSE calls[w]]

\* A faulty fast-path test that forgets the status and the address.
IsRunningAnyStatus(rec) == rec.ex

\* A faulty fast-path test that compares the status with a misspelt constant.
IsRunningMisspelt(rec) == rec.ex /\ rec.status = "Running" /\ rec.pod_ip # ""

\* the fast-path test of wakeOrGet and the exit test of pollUntilRunning
IsRunning(rec) == rec.ex /\ rec.status = StatusRunning /\ rec.pod_ip # ""

\* wakeOrGet entry: GetTenant and the fast path
WakeBegin(w, t) ==
    LET rec == GetTenant(reg, t) IN
    /\ IF IsRunning(rec)
       THEN wk' = [wk EXCEPT ![w] = [WkIdle EXCEPT !.pc = "done", !.t = t,
                                        !.res = rec.pod_ip, !.path = "fast"]]
       ELSE wk' = [wk EXCEPT ![w] = [WkIdle EXCEPT !.pc = "acquire", !.t = t,
                                        !.recNil = ~rec.ex,
                                        !.ev = IF rec.ex /\ rec.status = StatusIdle
                                               THEN EvictedUid(pods, t) ELSE 0]]
    /\ window' = [window EXCEPT ![w] = FALSE]
    /\ calls' = [calls EXCEPT ![w] = 0]
    /\ UNCHANGED <<now, reg, lock, pods, podSeq, pvc, wpod, idl, rcl, adm, cache, lease, el, rt,
                   api, hook, wdep, wmgr, cset>>

\* a first wake call of a handler goroutine
WakeStart(w) ==
    /\ wk[w].pc = "idle"
    /\ \E t \in Tenants : WakeBegin(w, t)

\* a further wake call after the previous one returned
WakeAgain(w) ==
    /\ wk[w].pc = "done"
    /\ \E t \in Tenants : WakeBegin(w, t)

\* A faulty wakeOrGet that goes on with the pipeline when the acquire
\* returned false.
AfterAcquireIgnored(w, acquired) ==
    [wk[w] EXCEPT !.pc = IF wk[w].recNil THEN "create_rec" ELSE "pvc",
                  !.path = IF acquired THEN "lock" ELSE "poll"]

\* where wakeOrGet continues after AcquireWakeLock returned acquired
AfterAcquire(w, acquired) ==
    IF acquired
    THEN [wk[w] EXCEPT !.pc = IF wk[w].recNil THEN "create_rec" ELSE "pvc",
                       !.path = "lock"]
    ELSE [wk[w] EXCEPT !.pc = "poll", !.path = "poll"]

\* AcquireWakeLock; on false enter pollUntilRunning
WakeAcquire(w) ==
    /\ wk[w].pc = "acquire"
    /\ LET acquired == AcquireWakeLock(lock, wk[w].t) IN
       /\ wk' = [wk EXCEPT ![w] = AfterAcquire(w, acquired)]
       /\ IF acquired
          THEN /\ lock' = [lock EXCEPT ![wk[w].t] = [held |-> TRUE, by |-> w]]
               /\ window' = [window EXCEPT ![w] = TRUE]
               /\ calls' = [calls EXCEPT ![w] = 0]
          ELSE UNCHANGED <<lock, window, calls>>
    /\ UNCHANGED <<now, reg, pods, podSeq, pvc, wpod, idl, rcl, adm, cache, lease, el, rt, api,
                   hook, wdep, wmgr, cset>>

\* A faulty auto-created record without the idle budget.
AutoRecordNoBudget(ts) ==
    [ex |-> TRUE, status |-> StatusProvisioning, pod_name |-> "",
     pod_ip |-> "", ns |-> Namespace, la |-> ts, idle |-> 0, tok |-> ""]

\* the record wakeOrGet auto-creates
AutoRecord(ts) ==
    [ex |-> TRUE, status |-> StatusProvisioning, pod_name |-> "",
     pod_ip |-> "", ns |-> Namespace, la |-> ts, idle |-> DefaultIdleTimeoutS,
     tok |-> ""]

\* rec == nil: auto-create the record, ignoring the error
WakeCreateRec(w) ==
    /\ wk[w].pc = "create_rec"
    /\ reg' = CreateTenant(reg, wk[w].t, AutoRecord(now))
    /\ wk' = [wk EXCEPT ![w].pc = "pvc", ![w].created = ~reg[wk[w].t].ex]
    /\ UNCHANGED <<now, lock, pods, podSeq, pvc, wpod, window, calls, idl, rcl, adm, cache,
                   lease, el, rt, api, hook, wdep, wmgr, cset>>

\* CreatePVC (idempotent)
WakePVC(w) ==
    /\ wk[w].pc = "pvc"
    /\ pvc' = [pvc EXCEPT ![wk[w].t] = TRUE]
    /\ wk' = [wk EXCEPT ![w].pc = "warm"]
    /\ UNCHANGED <<now, reg, lock, pods, podSeq, wpod, window, calls, idl, rcl, adm, cache,
                   lease, el, rt, api, hook, wdep, wmgr, cset>>

\* CreatePVC fails: return the error (the deferred release runs)
WakePVCError(w) ==
    /\ wk[w].pc = "pvc"
    /\ wk' = [wk EXCEPT ![w].pc = "release", ![w].res = "error"]
    /\ UNCHANGED <<now, reg, lock, pods, podSeq, pvc, wpod, window, calls, idl, rcl, adm, cache,
                   lease, el, rt, api, hook, wdep, wmgr, cset>>

\* the pods a List call returns, in list order
RECURSIVE SetToSeq(_)
SetToSeq(S) ==
    IF S = {} THEN <<>>
    ELSE LET x == CHOOSE y \in S : TRUE
         IN <<x>> \o SetToSeq(S \ {x})

\* GetWarmPod, first half: List app=warm-pool,warm=true
WakeWarmList(w) ==
    /\ wk[w].pc = "warm"
    /\ wk' = [wk EXCEPT ![w].pc = "claim",
                        ![w].cands = SetToSeq({p \in PoolIds : wpod[p] = "true"})]
    /\ UNCHANGED <<now, reg, lock, pods, podSeq, pvc, wpod, window, calls, idl, rcl, adm, cache,
                   lease, el, rt, api, hook, wdep, wmgr, cset>>

\* A faulty GetWarmPod whose relabel is not conditional on the resource
\* version of the listed pod.
WakeWarmClaimBlind(w) ==
    /\ wk[w].pc = "claim"
    /\ IF wk[w].cands = <<>>
       THEN /\ wk' = [wk EXCEPT ![w].pc = "create_pod", ![w].node = ""]
            /\ UNCHANGED wpod
       ELSE LET p == Head(wk[w].cands) IN
            /\ wpod' = [wpod EXCEPT ![p] = "consuming"]
            /\ wk' = [wk EXCEPT ![w].pc = "delete_warm", ![w].warm = p,
                                ![w].node = NodeOf(p), ![w].cands = <<>>]
    /\ UNCHANGED <<now, reg, lock, pods, podSeq, pvc, window, calls, idl, rcl, adm, cache,
                   lease, el, rt, api, hook, wdep, wmgr, cset>>

\* A faulty GetWarmPod that returns no pod when its first relabel fails.
WakeWarmClaimFirstOnly(w) ==
    /\ wk[w].pc = "claim"
    /\ IF wk[w].cands = <<>>
       THEN /\ wk' = [wk EXCEPT ![w].pc = "create_pod", ![w].node = ""]
            /\ UNCHANGED wpod
       ELSE LET p == Head(wk[w].cands) IN
            IF wpod[p] = "true"
            THEN /\ wpod' = [wpod EXCEPT ![p] = "consuming"]
                 /\ wk' = [wk EXCEPT ![w].pc = "delete_warm", ![w].warm = p,
                                     ![w].node = NodeOf(p), ![w].cands = <<>>]
            ELSE /\ wk' = [wk EXCEPT ![w].cands = <<>>]
                 /\ UNCHANGED wpod
    /\ UNCHANGED <<now, reg, lock, pods, podSeq, pvc, window, calls, idl, rcl, adm, cache,
                   lease, el, rt, api, hook, wdep, wmgr, cset>>

\* GetWarmPod, second half: conditional relabel of the next candidate
WakeWarmClaim(w) ==
    /\ wk[w].pc = "claim"
    /\ IF wk[w].cands = <<>>
       THEN /\ wk' = [wk EXCEPT ![w].pc = "create_pod", ![w].node = ""]
            /\ UNCHANGED wpod
       ELSE LET p == Head(wk[w].cands) IN
            IF wpod[p] = "true"
            THEN /\ wpod' = [wpod EXCEPT ![p] = "consuming"]
                 /\ wk' = [wk EXCEPT ![w].pc = "delete_warm", ![w].warm = p,
                                     ![w].node = NodeOf(p), ![w].cands = <<>>]
            ELSE /\ wk' = [wk EXCEPT ![w].cands = Tail(@)]
                 /\ UNCHANGED wpod
    /\ UNCHANGED <<now, reg, lock, pods, podSeq, pvc, window, calls, idl, rcl, adm, cache,
                   lease, el, rt, api, hook, wdep, wmgr, cset>>

\* DeletePod(warmPod.Name, ns, 0); its error is ignored
WakeDeleteWarm(w) ==
    /\ wk[w].pc = "delete_warm"
    /\ \/ wpod' = [wpod EXCEPT ![wk[w].warm] = "deleted"]
       \/ UNCHANGED wpod
    /\ wk' = [wk EXCEPT ![w].pc = "create_pod", ![w].warm = ""]
    /\ UNCHANGED <<now, reg, lock, pods, podSeq, pvc, window, calls, idl, rcl, adm, cache,
                   lease, el, rt, api, hook, wdep, wmgr, cset>>

\* A faulty wakeOrGet that creates the tenant pod without the node of the
\* claimed warm pod.
WakeCreatePodNoPin(w) ==
    /\ wk[w].pc = "create_pod"
    /\ LET t == wk[w].t IN
       /\ PodsNamed(pods, podName(t)) # {} \/ podSeq[t] < MaxPods
       /\ pods' = CreateTenantPod(pods, t, "", podSeq[t] + 1)
       /\ podSeq' = IF pods' # pods THEN [podSeq EXCEPT ![t] = @ + 1] ELSE podSeq
       /\ calls' = CountCall(t)
       /\ wk' = [wk EXCEPT ![w].pc = "wait", ![w].node = ""]
    /\ UNCHANGED <<now, reg, lock, pvc, wpod, window, idl, rcl, adm, cache, lease, el, rt, api,
                   hook, wdep, wmgr, cset>>

\* CreateTenantPod
WakeCreatePod(w) ==
    /\ wk[w].pc = "create_pod"
    /\ LET t == wk[w].t IN
       /\ PodsNamed(pods, podName(t)) # {} \/ podSeq[t] < MaxPods
       /\ pods' = CreateTenantPod(pods, t, wk[w].node, podSeq[t] + 1)
       /\ podSeq' = IF pods' # pods THEN [podSeq EXCEPT ![t] = @ + 1] ELSE podSeq
       /\ calls' = CountCall(t)
       /\ wk' = [wk EXCEPT ![w].pc = "wait", ![w].node = ""]
    /\ UNCHANGED <<now, reg, lock, pvc, wpod, window, idl, rcl, adm, cache, lease, el, rt, api,
                   hook, wdep, wmgr, cset>>

\* CreateTenantPod fails: return the error
WakeCreatePodError(w) ==
    /\ wk[w].pc = "create_pod"
    /\ wk' = [wk EXCEPT ![w].pc = "release", ![w].res = "error", ![w].node = ""]
    /\ UNCHANGED <<now, reg, lock, pods, podSeq, pvc, wpod, window, calls, idl, rcl, adm, cache,
                   lease, el, rt, api, hook, wdep, wmgr, cset>>

\* WaitPodReady returns the pod's address
WakeWaitReady(w) ==
    /\ wk[w].pc = "wait"
    /\ \E p \in PodReady(pods, wk[w].t) :
          wk' = [wk EXCEPT ![w].pc = "commit", ![w].ip = p.ip]
    /\ UNCHANGED <<now, reg, lock, pods, podSeq, pvc, wpod, window, calls, idl, rcl, adm, cache,
                   lease, el, rt, api, hook, wdep, wmgr, cset>>

\* A faulty timeout path that rolls the created pod back.
WakeWaitTimeoutRollback(w) ==
    /\ wk[w].pc = "wait"
    /\ PodReady(pods, wk[w].t) = {}
    /\ pods' = DeletePod(pods, podName(wk[w].t), Namespace, 0)
    /\ wk' = [wk EXCEPT ![w].pc = "release", ![w].res = "error"]
    /\ UNCHANGED <<now, reg, lock, podSeq, pvc, wpod, window, calls, idl, rcl, adm, cache,
                   lease, el, rt, api, hook, wdep, wmgr, cset>>

\* WaitPodReady times out; the pod is left in place
WakeWaitTimeout(w) ==
    /\ wk[w].pc = "wait"
    /\ PodReady(pods, wk[w].t) = {}
    /\ wk' = [wk EXCEPT ![w].pc = "release", ![w].res = "error"]
    /\ UNCHANGED <<now, reg, lock, pods, podSeq, pvc, wpod, window, calls, idl, rcl, adm, cache,
                   lease, el, rt, api, hook, wdep, wmgr, cset>>

\* UpdateStatus(Running, pod.Name, podIP)
WakeCommit(w) ==
    /\ wk[w].pc = "commit"
    /\ reg' = UpdateStatus(reg, wk[w].t, StatusRunning, podName(wk[w].t),
                           wk[w].ip, now)
    /\ wk' = [wk EXCEPT ![w].pc = "release", ![w].res = wk[w].ip, ![w].ip = ""]
    /\ UNCHANGED <<now, lock, pods, podSeq, pvc, wpod, window, calls, idl, rcl, adm, cache,
                   lease, el, rt, api, hook, wdep, wmgr, cset>>

\* UpdateStatus fails: return the error
WakeCommitError(w) ==
    /\ wk[w].pc = "commit"
    /\ wk' = [wk EXCEPT ![w].pc = "release", ![w].res = "error", ![w].ip = ""]
    /\ UNCHANGED <<now, reg, lock, pods, podSeq, pvc, wpod, window, calls, idl, rcl, adm, cache,
                   lease, el, rt, api, hook, wdep, wmgr, cset>>

\* deferred ReleaseWakeLock
WakeRelease(w) ==
    /\ wk[w].pc = "release"
    /\ lock' = ReleaseWakeLock(lock, wk[w].t)
    /\ wk' = [wk EXCEPT ![w].pc = "done"]
    /\ UNCHANGED <<now, reg, pods, podSeq, pvc, wpod, window, calls, idl, rcl, adm, cache,
                   lease, el, rt, api, hook, wdep, wmgr, cset>>

\* the steps of wakeOrGet between the deferral of the release and the return
Holding(w) ==
    /\ wk[w].path = "lock"
    /\ wk[w].pc \in {"create_rec", "pvc", "warm", "claim", "delete_warm",
                     "create_pod", "wait", "commit"}

\* the client of the call goes away: the request context is cancelled, the
\* call in progress returns the context's error, wakeOrGet returns it, and
\* the deferred ReleaseWakeLock, given the same context, is refused by the
\* Redis client; its error is dropped and the key stays until its TTL
WakeCancel(w) ==
    /\ Holding(w)
    /\ wk' = [wk EXCEPT ![w].pc = "gone", ![w].res = "error", ![w].node = "",
                        ![w].cands = <<>>, ![w].warm = "", ![w].ip = ""]
    /\ UNCHANGED <<now, reg, lock, pods, podSeq, pvc, wpod, window, calls, idl, rcl, adm, cache,
                   lease, el, rt, api, hook, wdep, wmgr, cset>>

\* the process serving the call dies
WakeCrash(w) ==
    /\ Holding(w)
    /\ wk' = [wk EXCEPT ![w].pc = "gone", ![w].res = "crashed", ![w].node = "",
                        ![w].cands = <<>>, ![w].warm = "", ![w].ip = ""]
    /\ UNCHANGED <<now, reg, lock, pods, podSeq, pvc, wpod, window, calls, idl, rcl, adm, cache,
                   lease, el, rt, api, hook, wdep, wmgr, cset>>

\* pollUntilRunning: an iteration that finds the record Running
WakePoll(w) ==
    /\ wk[w].pc = "poll"
    /\ LET rec == GetTenant(reg, wk[w].t) IN
       /\ IsRunning(rec)
       /\ wk' = [wk EXCEPT ![w].pc = "done", ![w].res = rec.pod_ip]
    /\ UNCHANGED <<now, reg, lock, pods, podSeq, pvc, wpod, window, calls, idl, rcl, adm, cache,
                   lease, el, rt, api, hook, wdep, wmgr, cset>>

\* pollUntilRunning: the deadline passes without the record being Running
WakePollTimeout(w) ==
    /\ wk[w].pc = "poll"
    /\ ~IsRunning(GetTenant(reg, wk[w].t))
    /\ wk' = [wk EXCEPT ![w].pc = "done", ![w].res = "error"]
    /\ UNCHANGED <<now, reg, lock, pods, podSeq, pvc, wpod, window, calls, idl, rcl, adm, cache,
                   lease, el, rt, api, hook, wdep, wmgr, cset>>

\* ------------------------------------------------------ administrative API
\* the record POST /tenants builds from the request
NewRecord(idleTimeoutS, botToken, ts) ==
    [ex |-> TRUE, status |-> StatusIdle, pod_name |-> "",
     pod_ip |-> "", ns |-> Namespace, la |-> ts,
     idle |-> IF idleTimeoutS = 0 THEN DefaultIdleTimeoutS ELSE idleTimeoutS,
     tok |-> botToken]

\* POST /tenants without a bot token, by a client that drops the response:
\* create the record in Idle state; 409 when it exists
ApiCreateTenant(t, idleTimeoutS) ==
    /\ reg' = CreateTenant(reg, t, NewRecord(idleTimeoutS, "", now))
    /\ UNCHANGED <<now, lock, pods, podSeq, pvc, wpod, wk, window, calls, idl, rcl, adm, cache,
                   lease, el, rt, api, hook, wdep, wmgr, cset>>

\* PATCH /tenants/{id} with idle_timeout_s
ApiUpdateTenant(t, idleTimeoutS) ==
    /\ reg' = UpdateIdleTimeout(reg, t, idleTimeoutS)
    /\ UNCHANGED <<now, lock, pods, podSeq, pvc, wpod, wk, window, calls, idl, rcl, adm, cache,
                   lease, el, rt, api, hook, wdep, wmgr, cset>>

\* PUT /tenants/{id}/activity
ApiUpdateActivity(t) ==
    /\ reg' = UpdateActivity(reg, t, now)
    /\ UNCHANGED <<now, lock, pods, podSeq, pvc, wpod, wk, window, calls, idl, rcl, adm, cache,
                   lease, el, rt, api, hook, wdep, wmgr, cset>>

AdmIdle == [pc |-> "idle", t |-> "", pod_name |-> "", ns |-> "", tok |-> ""]

\* DELETE /tenants/{id}: GetTenant; 204 at once when there is no record
DeleteGet(t) ==
    /\ adm.pc = "idle"
    /\ LET rec == GetTenant(reg, t) IN
       adm' = IF rec.ex
              THEN [pc |-> "pod", t |-> t, pod_name |-> rec.pod_name, ns |-> rec.ns,
                    tok |-> rec.tok]
              ELSE AdmIdle
    /\ UNCHANGED <<now, reg, lock, pods, podSeq, pvc, wpod, wk, window, calls, idl, rcl, cache,
                   lease, el, rt, api, hook, wdep, wmgr, cset>>

\* DELETE /tenants/{id}: DeletePod with 30 s grace when the record names a pod
DeletePodStep ==
    /\ adm.pc = "pod"
    /\ pods' = IF adm.pod_name # ""
               THEN DeletePod(pods, adm.pod_name, adm.ns, DeleteGraceSeconds)
               ELSE pods
    /\ adm' = [adm EXCEPT !.pc = "pvc"]
    /\ UNCHANGED <<now, reg, lock, podSeq, pvc, wpod, wk, window, calls, idl, rcl, cache, lease,
                   el, rt, api, hook, wdep, wmgr, cset>>

\* DELETE /tenants/{id}: DeletePod fails; the error is logged
DeletePodError ==
    /\ adm.pc = "pod"
    /\ adm.pod_name # ""
    /\ adm' = [adm EXCEPT !.pc = "pvc"]
    /\ UNCHANGED <<now, reg, lock, pods, podSeq, pvc, wpod, wk, window, calls, idl, rcl, cache,
                   lease, el, rt, api, hook, wdep, wmgr, cset>>

\* DELETE /tenants/{id}: DeletePVC
DeletePVCStep ==
    /\ adm.pc = "pvc"
    /\ pvc' = [pvc EXCEPT ![adm.t] = FALSE]
    /\ adm' = [adm EXCEPT !.pc = "reg"]
    /\ UNCHANGED <<now, reg, lock, pods, podSeq, wpod, wk, window, calls, idl, rcl, cache,
                   lease, el, rt, api, hook, wdep, wmgr, cset>>

\* DELETE /tenants/{id}: DeletePVC fails; the error is logged
DeletePVCError ==
    /\ adm.pc = "pvc"
    /\ adm' = [adm EXCEPT !.pc = "reg"]
    /\ UNCHANGED <<now, reg, lock, pods, podSeq, pvc, wpod, wk, window, calls, idl, rcl, cache,
                   lease, el, rt, api, hook, wdep, wmgr, cset>>

\* where DELETE continues after the address-cache entry: DeleteWebhook when
\* the record read at the start has a bot token, else 204
AfterCacheDel ==
    IF adm.tok # "" THEN [adm EXCEPT !.pc = "hook"] ELSE AdmIdle

\* DELETE /tenants/{id}: registry DeleteTenant, then Del of the address-cache
\* entry
DeleteRegStep ==
    /\ adm.pc = "reg"
    /\ reg' = DeleteTenant(reg, adm.t)
    /\ cache' = [cache EXCEPT ![adm.t] = ""]
    /\ adm' = AfterCacheDel
    /\ UNCHANGED <<now, lock, pods, podSeq, pvc, wpod, wk, window, calls, idl, rcl, lease, el,
                   rt, api, hook, wdep, wmgr, cset>>

\* DELETE /tenants/{id}: registry DeleteTenant fails; 500
DeleteRegError ==
    /\ adm.pc = "reg"
    /\ adm' = AdmIdle
    /\ UNCHANGED <<now, reg, lock, pods, podSeq, pvc, wpod, wk, window, calls, idl, rcl, cache,
                   lease, el, rt, api, hook, wdep, wmgr, cset>>

\* DELETE /tenants/{id}: the record is deleted and the Del of the
\* address-cache entry fails; the error is logged
DeleteCacheError ==
    /\ adm.pc = "reg"
    /\ reg' = DeleteTenant(reg, adm.t)
    /\ adm' = AfterCacheDel
    /\ UNCHANGED <<now, lock, pods, podSeq, pvc, wpod, wk, window, calls, idl, rcl, cache,
                   lease, el, rt, api, hook, wdep, wmgr, cset>>

\* DELETE /tenants/{id}: DeleteWebhook with the token read at the start, 204
DeleteHookStep ==
    /\ adm.pc = "hook"
    /\ hook' = [hook EXCEPT ![adm.tok] = ""]
    /\ adm' = AdmIdle
    /\ UNCHANGED <<now, reg, lock, pods, podSeq, pvc, wpod, wk, window, calls, idl, rcl, cache,
                   lease, el, rt, api, wdep, wmgr, cset>>

\* DELETE /tenants/{id}: DeleteWebhook fails; the error is logged, 204
DeleteHookError ==
    /\ adm.pc = "hook"
    /\ adm' = AdmIdle
    /\ UNCHANGED <<now, reg, lock, pods, podSeq, pvc, wpod, wk, window, calls, idl, rcl, cache,
                   lease, el, rt, api, hook, wdep, wmgr, cset>>

\* the steps of DELETE /tenants/{id} in which a call fails
DeleteFault ==
    \/ DeletePodError
    \/ DeletePVCError
    \/ DeleteRegError
    \/ DeleteCacheError

\* ------------------------------------- administrative API, with responses
\* the JSON encoding of a record (TenantRecord has no json tags)
Encode(t, rec) ==
    [TenantID |-> t, Status |-> rec.status, PodName |-> rec.pod_name,
     PodIP |-> rec.pod_ip, Namespace |-> rec.ns, BotToken |-> rec.tok,
     LastActiveAt |-> rec.la, IdleTimeoutS |-> rec.idle]

\* A faulty redaction that leaves the record as it is.
RedactNothing(rec) == rec

\* rec.BotToken = "" before the record is encoded
Redact(rec) == [rec EXCEPT !.tok = ""]

\* ListAll: scan with filter attribute_exists(status)
ListAll(r) == {t \in Tenants : r[t].ex /\ r[t].status # ""}

\* UpdateBotToken: UpdateItem conditional on attribute_exists(tenant_id)
UpdateBotToken(r, t, botToken) ==
    IF r[t].ex THEN [r EXCEPT ![t].tok = botToken] ELSE r

\* a client of the API between two requests; code and body are those of the
\* last response
ApiIdle ==
    [pc |-> "idle", op |-> "", t |-> "", tok |-> "", hasTok |-> FALSE,
     idle |-> 0, hasIdle |-> FALSE, code |-> 0, body |-> {}]

\* a response without a body
Status(code) == [code |-> code, body |-> {}]

\* the response of POST /tenants that created rec
CreatedResponse(t, rec) == [code |-> 201, body |-> {Encode(t, Redact(rec))}]

\* the response of GET /tenants
ListResponse(r) ==
    [code |-> 200, body |-> {Encode(t, Redact(r[t])) : t \in ListAll(r)}]

\* the response of GET /tenants/{id} and the last step of PATCH /tenants/{id}
RecordResponse(r, t) ==
    IF r[t].ex THEN [code |-> 200, body |-> {Encode(t, Redact(r[t]))}]
    ELSE Status(404)

\* the response of GET /tenants/{id}/bot_token
BotTokenResponse(r, t) ==
    IF r[t].ex THEN [code |-> 200, body |-> {[BotToken |-> r[t].tok]}]
    ELSE Status(404)

\* the handler writes the response of client c's request
Respond(c, op, t, resp) ==
    [api EXCEPT ![c] = [ApiIdle EXCEPT !.op = op, !.t = t, !.code = resp.code,
                                       !.body = resp.body]]

\* POST /tenants: CreateTenant (any error is answered 409), then the webhook
\* registration when a bot token was given, then 201 with the redacted record
HandlerCreateTenant(c, t, idleTimeoutS, botToken) ==
    /\ api[c].pc = "idle"
    /\ LET rec == NewRecord(idleTimeoutS, botToken, now) IN
       \/ /\ reg' = CreateTenant(reg, t, rec)
          /\ api' = IF reg[t].ex
                    THEN Respond(c, "create", t, Status(409))
                    ELSE IF botToken # ""
                    THEN [api EXCEPT ![c] =
                            [ApiIdle EXCEPT !.pc = "create_hook", !.op = "create",
                                            !.t = t, !.tok = botToken,
                                            !.body = CreatedResponse(t, rec).body]]
                    ELSE Respond(c, "create", t, CreatedResponse(t, rec))
       \/ /\ UNCHANGED reg
          /\ api' = Respond(c, "create", t, Status(409))
    /\ UNCHANGED <<now, lock, pods, podSeq, pvc, wpod, wk, window, calls, idl, rcl, adm, cache,
                   lease, el, rt, hook, wdep, wmgr, cset>>

\* POST /tenants: RegisterWebhook (a failure is only logged), then 201
HandlerCreateTenantHook(c) ==
    /\ api[c].pc = "create_hook"
    /\ \/ hook' = [hook EXCEPT ![api[c].tok] = api[c].t]
       \/ UNCHANGED hook
    /\ api' = Respond(c, "create", api[c].t, [code |-> 201, body |-> api[c].body])
    /\ UNCHANGED <<now, reg, lock, pods, podSeq, pvc, wpod, wk, window, calls, idl, rcl, adm,
                   cache, lease, el, rt, wdep, wmgr, cset>>

\* GET /tenants: ListAll, every record redacted
HandlerListTenants(c) ==
    /\ api[c].pc = "idle"
    /\ \/ api' = Respond(c, "list", "", ListResponse(reg))
       \/ api' = Respond(c, "list", "", Status(500))
    /\ UNCHANGED <<now, reg, lock, pods, podSeq, pvc, wpod, wk, window, calls, idl, rcl, adm,
                   cache, lease, el, rt, hook, wdep, wmgr, cset>>

\* GET /tenants/{id}: the redacted record, or 404
HandlerGetTenant(c, t) ==
    /\ api[c].pc = "idle"
    /\ \/ api' = Respond(c, "get", t, RecordResponse(reg, t))
       \/ api' = Respond(c, "get", t, Status(500))
    /\ UNCHANGED <<now, reg, lock, pods, podSeq, pvc, wpod, wk, window, calls, idl, rcl, adm,
                   cache, lease, el, rt, hook, wdep, wmgr, cset>>

\* GET /tenants/{id}/bot_token: the token alone, or 404
HandlerGetBotToken(c, t) ==
    /\ api[c].pc = "idle"
    /\ \/ api' = Respond(c, "bot_token", t, BotTokenResponse(reg, t))
       \/ api' = Respond(c, "bot_token", t, Status(500))
    /\ UNCHANGED <<now, reg, lock, pods, podSeq, pvc, wpod, wk, window, calls, idl, rcl, adm,
                   cache, lease, el, rt, hook, wdep, wmgr, cset>>

\* where PATCH /tenants/{id} continues after its bot_token part
AfterToken(a) ==
    [a EXCEPT !.pc = IF a.hasIdle THEN "patch_idle" ELSE "patch_get"]

\* PATCH /tenants/{id}: the request is decoded; bot_token and idle_timeout_s
\* are optional
HandlerUpdateTenant(c, t, hasTok, botToken, hasIdle, idleTimeoutS) ==
    /\ api[c].pc = "idle"
    /\ api' = [api EXCEPT ![c] =
                 [ApiIdle EXCEPT !.pc = IF hasTok THEN "patch_tok"
                                        ELSE IF hasIdle THEN "patch_idle"
                                        ELSE "patch_get",
                                 !.op = "patch", !.t = t,
                                 !.hasTok = hasTok, !.tok = IF hasTok THEN botToken ELSE "",
                                 !.hasIdle = hasIdle,
                                 !.idle = IF hasIdle THEN idleTimeoutS ELSE 0]]
    /\ UNCHANGED <<now, reg, lock, pods, podSeq, pvc, wpod, wk, window, calls, idl, rcl, adm,
                   cache, lease, el, rt, hook, wdep, wmgr, cset>>

\* PATCH: UpdateBotToken; 404 on any error
HandlerUpdateTenantToken(c) ==
    /\ api[c].pc = "patch_tok"
    /\ LET a == api[c] IN
       \/ /\ reg' = UpdateBotToken(reg, a.t, a.tok)
          /\ api' = IF ~reg[a.t].ex THEN Respond(c, "patch", a.t, Status(404))
                    ELSE IF a.tok # "" THEN [api EXCEPT ![c].pc = "patch_hook"]
                    ELSE [api EXCEPT ![c] = AfterToken(a)]
       \/ /\ UNCHANGED reg
          /\ api' = Respond(c, "patch", a.t, Status(404))
    /\ UNCHANGED <<now, lock, pods, podSeq, pvc, wpod, wk, window, calls, idl, rcl, adm, cache,
                   lease, el, rt, hook, wdep, wmgr, cset>>

\* PATCH: RegisterWebhook with the new token (a failure is only logged)
HandlerUpdateTenantHook(c) ==
    /\ api[c].pc = "patch_hook"
    /\ \/ hook' = [hook EXCEPT ![api[c].tok] = api[c].t]
       \/ UNCHANGED hook
    /\ api' = [api EXCEPT ![c] = AfterToken(api[c])]
    /\ UNCHANGED <<now, reg, lock, pods, podSeq, pvc, wpod, wk, window, calls, idl, rcl, adm,
                   cache, lease, el, rt, wdep, wmgr, cset>>

\* PATCH: UpdateIdleTimeout; 404 on any error
HandlerUpdateTenantIdle(c) ==
    /\ api[c].pc = "patch_idle"
    /\ LET a == api[c] IN
       \/ /\ reg' = UpdateIdleTimeout(reg, a.t, a.idle)
          /\ api' = IF ~reg[a.t].ex THEN Respond(c, "patch", a.t, Status(404))
                    ELSE [api EXCEPT ![c].pc = "patch_get"]
       \/ /\ UNCHANGED reg
          /\ api' = Respond(c, "patch", a.t, Status(404))
    /\ UNCHANGED <<now, lock, pods, podSeq, pvc, wpod, wk, window, calls, idl, rcl, adm, cache,
                   lease, el, rt, hook, wdep, wmgr, cset>>

\* PATCH: GetTenant and the redacted record; 404 when it is missing
HandlerUpdateTenantGet(c) ==
    /\ api[c].pc = "patch_get"
    /\ \/ api' = Respond(c, "patch", api[c].t, RecordResponse(reg, api[c].t))
       \/ api' = Respond(c, "patch", api[c].t, Status(404))
    /\ UNCHANGED <<now, reg, lock, pods, podSeq, pvc, wpod, wk, window, calls, idl, rcl, adm,
                   cache, lease, el, rt, hook, wdep, wmgr, cset>>

\* PUT /tenants/{id}/activity: UpdateActivity; 204, or 500 on an error
HandlerUpdateActivity(c, t) ==
    /\ api[c].pc = "idle"
    /\ \/ /\ reg' = UpdateActivity(reg, t, now)
          /\ api' = Respond(c, "activity", t, Status(204))
       \/ /\ UNCHANGED reg
          /\ api' = Respond(c, "activity", t, Status(500))
    /\ UNCHANGED <<now, lock, pods, podSeq, pvc, wpod, wk, window, calls, idl, rcl, adm, cache,
                   lease, el, rt, hook, wdep, wmgr, cset>>

\* -------------------------------------------------------- idle controller
\* locals of checkIdleTenants, and a history field: err is the tenant whose
\* pod delete failed last in the current or latest pass ("": none)
IdlIdle == [pc |-> "idle", list |-> <<>>, err |-> ""]

\* the records returned by a scan, in scan order
RECURSIVE Snapshots(_, _)
Snapshots(r, S) ==
    IF S = {} THEN <<>>
    ELSE LET t == CHOOSE x \in S : TRUE
         IN <<[t |-> t, pod_name |-> r[t].pod_name, ns |-> r[t].ns,
               la |-> r[t].la, idle |-> r[t].idle]>> \o Snapshots(r, S \ {t})

\* the per-tenant threshold of checkIdleTenants
IdleThreshold(rec) ==
    IF rec.idle = 0 THEN FallbackTimeoutSeconds ELSE rec.idle

\* A faulty activity test that compares with the pre-filter instead of the
\* tenant's own budget.
StillActivePreFilter(rec, ts) == (ts - rec.la) * TickSeconds < PreFilterSeconds

\* time.Since(t.LastActiveAt) < timeout
StillActive(rec, ts) == (ts - rec.la) * TickSeconds < IdleThreshold(rec)

\* the loop of checkIdleTenants moves to the next listed tenant
IdleAdvance ==
    IF Len(idl.list) <= 1 THEN [IdlIdle EXCEPT !.err = idl.err]
    ELSE [pc |-> "check", list |-> Tail(idl.list), err |-> idl.err]

\* checkIdleTenants: ListIdleTenants(5 minutes)
IdleList ==
    /\ idl.pc = "idle"
    /\ LET l == Snapshots(reg, ListIdleTenants(reg, PreFilterSeconds, now)) IN
       idl' = IF l = <<>> THEN IdlIdle ELSE [pc |-> "check", list |-> l, err |-> ""]
    /\ UNCHANGED <<now, reg, lock, pods, podSeq, pvc, wpod, wk, window, calls, rcl, adm, cache,
                   lease, el, rt, api, hook, wdep, wmgr, cset>>

\* A faulty loop body that goes on to the status update when the pod delete
\* failed.
IdleCheckUpdatesOnError ==
    /\ idl.pc = "check"
    /\ LET rec == Head(idl.list) IN
       IF StillActive(rec, now)
       THEN /\ idl' = IdleAdvance
            /\ UNCHANGED pods
       ELSE \/ /\ pods' = MarkEvicted(
                              DeletePod(pods, rec.pod_name, rec.ns, IdleGraceSeconds),
                              rec.pod_name, rec.ns)
               /\ idl' = [idl EXCEPT !.pc = "update"]
            \/ /\ idl' = [idl EXCEPT !.pc = "update", !.err = rec.t]
               /\ UNCHANGED pods
    /\ UNCHANGED <<now, reg, lock, podSeq, pvc, wpod, wk, window, calls, rcl, adm, cache, lease,
                   el, rt, api, hook, wdep, wmgr, cset>>

\* checkIdleTenants: skip an active tenant, else DeletePod with 30s grace;
\* on a delete error the status update is skipped
IdleCheck ==
    /\ idl.pc = "check"
    /\ LET rec == Head(idl.list) IN
       IF StillActive(rec, now)
       THEN /\ idl' = IdleAdvance
            /\ UNCHANGED pods
       ELSE \/ /\ pods' = MarkEvicted(
                              DeletePod(pods, rec.pod_name, rec.ns, IdleGraceSeconds),
                              rec.pod_name, rec.ns)
               /\ idl' = [idl EXCEPT !.pc = "update"]
            \/ /\ idl' = [IdleAdvance EXCEPT !.err = rec.t]
               /\ UNCHANGED pods
    /\ UNCHANGED <<now, reg, lock, podSeq, pvc, wpod, wk, window, calls, rcl, adm, cache, lease,
                   el, rt, api, hook, wdep, wmgr, cset>>

\* checkIdleTenants: UpdateStatus(Idle, "", ""), or its error
IdleUpdate ==
    /\ idl.pc = "update"
    /\ \/ reg' = UpdateStatus(reg, Head(idl.list).t, StatusIdle, "", "", now)
       \/ UNCHANGED reg
    /\ idl' = IdleAdvance
    /\ UNCHANGED <<now, lock, pods, podSeq, pvc, wpod, wk, window, calls, rcl, adm, cache,
                   lease, el, rt, api, hook, wdep, wmgr, cset>>

\* ------------------------------------------------------- drift reconciler
RclIdle == [pc |-> "idle", list |-> <<>>]

RECURSIVE SeqOf(_)
SeqOf(S) ==
    IF S = {} THEN <<>>
    ELSE LET t == CHOOSE x \in S : TRUE IN <<t>> \o SeqOf(S \ {t})

\* the next iteration of the loop over the listed tenants, or the end of the pass
RclAdvance(r) ==
    IF Len(rcl[r].list) <= 1 THEN RclIdle
    ELSE [pc |-> "check", list |-> Tail(rcl[r].list)]

\* A faulty reconcile that runs only on the replica holding the leader lease.
ReconcileListLeaderOnly(r) ==
    /\ lease = r
    /\ rcl[r].pc = "idle"
    /\ LET l == SeqOf(ListByStatus(reg, StatusRunning)) IN
       rcl' = [rcl EXCEPT ![r] = IF l = <<>> THEN RclIdle
                                 ELSE [pc |-> "check", list |-> l]]
    /\ UNCHANGED <<now, reg, lock, pods, podSeq, pvc, wpod, wk, window, calls, idl, adm, cache,
                   lease, el, rt, api, hook, wdep, wmgr, cset>>

\* reconcile: ListByStatus(Running); return when there is none
ReconcileList(r) ==
    /\ rcl[r].pc = "idle"
    /\ LET l == SeqOf(ListByStatus(reg, StatusRunning)) IN
       rcl' = [rcl EXCEPT ![r] = IF l = <<>> THEN RclIdle
                                 ELSE [pc |-> "check", list |-> l]]
    /\ UNCHANGED <<now, reg, lock, pods, podSeq, pvc, wpod, wk, window, calls, idl, adm, cache,
                   lease, el, rt, api, hook, wdep, wmgr, cset>>

\* reconcile: PodExists("zeroclaw-" + id, r.namespace); continue when the pod
\* exists, go on to the reset when it is missing
ReconcileCheck(r) ==
    /\ rcl[r].pc = "check"
    /\ rcl' = [rcl EXCEPT ![r] = IF PodExists(pods, podName(Head(rcl[r].list)))
                                 THEN RclAdvance(r)
                                 ELSE [rcl[r] EXCEPT !.pc = "reset"]]
    /\ UNCHANGED <<now, reg, lock, pods, podSeq, pvc, wpod, wk, window, calls, idl, adm, cache,
                   lease, el, rt, api, hook, wdep, wmgr, cset>>

\* reconcile: PodExists fails; the error is logged and the loop continues
ReconcileCheckError(r) ==
    /\ rcl[r].pc = "check"
    /\ rcl' = [rcl EXCEPT ![r] = RclAdvance(r)]
    /\ UNCHANGED <<now, reg, lock, pods, podSeq, pvc, wpod, wk, window, calls, idl, adm, cache,
                   lease, el, rt, api, hook, wdep, wmgr, cset>>

\* A faulty reset that keeps the pod name and the address of the record.
ResetKeepsPod(t) ==
    UpdateStatus(reg, t, StatusIdle, reg[t].pod_name, reg[t].pod_ip, now)

\* the registry write of a reset: UpdateStatus(id, Idle, "", "")
Reset(t) ==
    UpdateStatus(reg, t, StatusIdle, "", "", now)

\* reconcile: the pod is missing; UpdateStatus(Idle, "", "") succeeds, then
\* Del("router:endpoint:" + id), whose error is only logged
ReconcileReset(r) ==
    /\ rcl[r].pc = "reset"
    /\ reg' = Reset(Head(rcl[r].list))
    /\ \/ cache' = [cache EXCEPT ![Head(rcl[r].list)] = ""]
       \/ UNCHANGED cache
    /\ rcl' = [rcl EXCEPT ![r] = RclAdvance(r)]
    /\ UNCHANGED <<now, lock, pods, podSeq, pvc, wpod, wk, window, calls, idl, adm, lease, el,
                   rt, api, hook, wdep, wmgr, cset>>

\* reconcile: UpdateStatus fails; the error is logged and the loop continues
\* without touching the address cache
ReconcileResetError(r) ==
    /\ rcl[r].pc = "reset"
    /\ rcl' = [rcl EXCEPT ![r] = RclAdvance(r)]
    /\ UNCHANGED <<now, reg, lock, pods, podSeq, pvc, wpod, wk, window, calls, idl, adm, cache,
                   lease, el, rt, api, hook, wdep, wmgr, cset>>

\* the steps of one replica's reconcile pass
Reconcile(r) ==
    \/ ReconcileList(r)
    \/ ReconcileCheck(r)
    \/ ReconcileReset(r)

\* the steps of a reconcile pass in which a call fails
ReconcileFault(r) ==
    \/ ReconcileCheckError(r)
    \/ ReconcileResetError(r)

\* ------------------------------------------------------------------ router
\* One goroutine per inbound update: webhookHandler up to the acknowledgement,
\* then handleTelegramUpdate. The wake call of goroutine g is the wake call
\* wk[g] of the orchestrator. History fields: code (the status sent to the
\* messaging platform, 0: none yet), fwd (outcome of the forward) and sent
\* (messages delivered to the chat). The updates carry a chat id.
RtIdle ==
    [pc |-> "idle", t |-> "", body |-> "", code |-> 0, ip |-> "",
     tok |-> "", fwd |-> "", sent |-> 0]

\* update bodies: a message with text, and a callback query without text
Bodies == {"message", "callback"}

\* extractMessageText
extractMessageText(body) == IF body = "message" THEN "text" ELSE ""

\* A faulty webhookHandler that handles the update before it acknowledges.
AfterReadAllInline == "lookup"

\* webhookHandler after the body was read: WriteHeader(200) and Flush come
\* before the go statement
AfterReadAll == "ack"

\* webhookHandler: URL parameter and body; 400 without any further step when
\* the tenant id is empty or the body cannot be read
RouterReceive(g, t, body) ==
    /\ rt[g].pc = "idle"
    /\ \/ rt' = [rt EXCEPT ![g] = [RtIdle EXCEPT !.pc = AfterReadAll, !.t = t,
                                                 !.body = body]]
       \/ rt' = [rt EXCEPT ![g] = [RtIdle EXCEPT !.pc = "end", !.code = 400]]
    /\ UNCHANGED <<now, reg, lock, pods, podSeq, pvc, wpod, wk, window, calls, idl, rcl, adm,
                   cache, lease, el, api, hook, wdep, wmgr, cset>>

\* webhookHandler: WriteHeader(200), Flush, go handleTelegramUpdate
RouterAck(g) ==
    /\ rt[g].pc = "ack"
    /\ rt' = [rt EXCEPT ![g].pc = "lookup", ![g].code = 200]
    /\ UNCHANGED <<now, reg, lock, pods, podSeq, pvc, wpod, wk, window, calls, idl, rcl, adm,
                   cache, lease, el, api, hook, wdep, wmgr, cset>>

\* TTL of an address-cache entry, in seconds
EndpointCacheTTL == 5 * 60

\* the address-cache entry of tenant t has been set and has not expired
CacheLive(t) == cache[t] # "" /\ (now - cset[t]) * TickSeconds < EndpointCacheTTL

\* handleTelegramUpdate: getCachedPodIP; on a hit forward directly
RouterLookup(g) ==
    /\ rt[g].pc = "lookup"
    /\ \/ rt' = [rt EXCEPT ![g] = IF CacheLive(rt[g].t)
                                  THEN [@ EXCEPT !.pc = "forward", !.ip = cache[rt[g].t]]
                                  ELSE [@ EXCEPT !.pc = "token"]]
       \/ rt' = [rt EXCEPT ![g].pc = "token"]
    /\ UNCHANGED <<now, reg, lock, pods, podSeq, pvc, wpod, wk, window, calls, idl, rcl, adm,
                   cache, lease, el, api, hook, wdep, wmgr, cset>>

\* getBotToken: GET /tenants/{id}/bot_token; "" on any failure
RouterToken(g) ==
    /\ rt[g].pc = "token"
    /\ \E tk \in {GetTenant(reg, rt[g].t).tok, ""} :
          rt' = [rt EXCEPT ![g].tok = tk,
                           ![g].pc = IF tk # "" THEN "notify" ELSE "wake"]
    /\ UNCHANGED <<now, reg, lock, pods, podSeq, pvc, wpod, wk, window, calls, idl, rcl, adm,
                   cache, lease, el, api, hook, wdep, wmgr, cset>>

\* sendTelegramMessage("Starting up, please wait a moment...")
RouterNotify(g) ==
    /\ rt[g].pc = "notify"
    /\ rt' = [rt EXCEPT ![g].pc = "wake", ![g].sent = @ + 1]
    /\ UNCHANGED <<now, reg, lock, pods, podSeq, pvc, wpod, wk, window, calls, idl, rcl, adm,
                   cache, lease, el, api, hook, wdep, wmgr, cset>>

\* wakePod returned an error: the failure message when there is a token, return
RouterWakeFailed(g) ==
    /\ rt[g].pc = "wake"
    /\ wk[g].pc = "done" /\ wk[g].res = "error"
    /\ rt' = [rt EXCEPT ![g].pc = "end",
                        ![g].sent = IF rt[g].tok # "" THEN @ + 1 ELSE @]
    /\ UNCHANGED <<now, reg, lock, pods, podSeq, pvc, wpod, wk, window, calls, idl, rcl, adm,
                   cache, lease, el, api, hook, wdep, wmgr, cset>>

\* where a goroutine that waits for its wake call continues with the address
AfterWake(g, ip) ==
    IF g.pc = "wake" THEN [g EXCEPT !.pc = "forward", !.ip = ip] ELSE g

\* handleTelegramUpdate: after a wake call returned an address, Set the
\* address-cache entry of the tenant
RouterCacheSet(w) ==
    /\ wk[w].pc = "done"
    /\ wk[w].res \notin {"", "error"}
    /\ cache' = [cache EXCEPT ![wk[w].t] = wk[w].res]
    /\ cset' = [cset EXCEPT ![wk[w].t] = now]
    /\ rt' = [rt EXCEPT ![w] = AfterWake(rt[w], wk[w].res)]
    /\ UNCHANGED <<now, reg, lock, pods, podSeq, pvc, wpod, wk, window, calls, idl, rcl, adm,
                   lease, el, api, hook, wdep, wmgr>>

\* the pod that listens at an address
PodAt(ps, ip) == {p \in ps : p.ip = ip /\ p.phase = "Running"}

\* handleTelegramUpdate after forwardToPod returned: forwardToPod has no
\* result, updateActivity is called whatever happened
AfterForwardFailed == "activity"

\* forwardToPod: no text, nothing is sent to the pod
RouterForwardSkip(g) ==
    /\ rt[g].pc = "forward"
    /\ extractMessageText(rt[g].body) = ""
    /\ rt' = [rt EXCEPT ![g].pc = "activity", ![g].fwd = "skipped"]
    /\ UNCHANGED <<now, reg, lock, pods, podSeq, pvc, wpod, wk, window, calls, idl, rcl, adm,
                   cache, lease, el, api, hook, wdep, wmgr, cset>>

\* forwardToPod: the POST to the pod gets a response; the reply is delivered
\* when the response has one and the tenant has a token
RouterForward(g) ==
    /\ rt[g].pc = "forward"
    /\ extractMessageText(rt[g].body) # ""
    /\ PodAt(pods, rt[g].ip) # {}
    /\ \E tk \in {GetTenant(reg, rt[g].t).tok, ""} :
          rt' = [rt EXCEPT ![g].pc = "activity", ![g].fwd = "ok",
                           ![g].sent = IF tk # "" THEN @ + 1 ELSE @]
    /\ UNCHANGED <<now, reg, lock, pods, podSeq, pvc, wpod, wk, window, calls, idl, rcl, adm,
                   cache, lease, el, api, hook, wdep, wmgr, cset>>

\* forwardToPod: the POST fails at transport level; Del of the cache entry
RouterForwardFailed(g) ==
    /\ rt[g].pc = "forward"
    /\ extractMessageText(rt[g].body) # ""
    /\ rt' = [rt EXCEPT ![g].pc = AfterForwardFailed, ![g].fwd = "failed"]
    /\ \/ cache' = [cache EXCEPT ![rt[g].t] = ""]
       \/ UNCHANGED cache
    /\ UNCHANGED <<now, reg, lock, pods, podSeq, pvc, wpod, wk, window, calls, idl, rcl, adm,
                   lease, el, api, hook, wdep, wmgr, cset>>

\* updateActivity: PUT /tenants/{id}/activity, the outcome is not looked at
RouterActivity(g) ==
    /\ rt[g].pc = "activity"
    /\ \/ reg' = UpdateActivity(reg, rt[g].t, now)
       \/ UNCHANGED reg
    /\ rt' = [rt EXCEPT ![g].pc = "end"]
    /\ UNCHANGED <<now, lock, pods, podSeq, pvc, wpod, wk, window, calls, idl, rcl, adm, cache,
                   lease, el, api, hook, wdep, wmgr, cset>>

\* --------------------------------------------------------- leader election
\* Times are in seconds and kept as countdowns: retry (to the next attempt),
\* expiry (to observedTime + LeaseDuration), deadline (to the end of the
\* current renew cycle) and tick (to the next idle tick).
ElInit ==
    [pc |-> "acquire", retry |-> 0, fresh |-> FALSE, expiry |-> 0,
     deadline |-> 0, loop |-> "off", tick |-> 0, ticked |-> FALSE]

\* a replica whose Run has returned or whose process is gone keeps no timer
ElOver(pc, loop) ==
    [pc |-> pc, retry |-> 0, fresh |-> FALSE, expiry |-> 0,
     deadline |-> 0, loop |-> loop, tick |-> 0, ticked |-> FALSE]

\* tryAcquireOrRenew: a record that differs from the observed one restarts
\* the observer's own count of the lease duration
ElObserve(e) ==
    IF e.fresh THEN [e EXCEPT !.fresh = FALSE, !.expiry = LeaseDuration] ELSE e

\* the lease record was written by r: every other replica will see a change
ElWritten(r, e) ==
    [q \in Replicas |->
        IF q = r THEN e
        ELSE IF el[q].pc \in {"acquire", "renew"} THEN [el[q] EXCEPT !.fresh = TRUE]
        ELSE el[q]]

\* runIdleLoop calls checkIdleTenants before it waits for the ticker
FirstTick == 0

\* le.acquire: one attempt of a candidate; the lease is taken when it has no
\* holder or has not changed for LeaseDuration, and then OnStartedLeading
\* starts runIdleLoop and the first renew cycle begins
ElTry(r) ==
    /\ el[r].pc = "acquire" /\ el[r].retry = 0
    /\ LET o == ElObserve(el[r]) IN
       IF lease # "" /\ lease # r /\ o.expiry > 0
       THEN /\ \E j \in RetryPeriod..(2 * RetryPeriod) :
                 el' = [el EXCEPT ![r] = [o EXCEPT !.retry = j]]
            /\ UNCHANGED lease
       ELSE /\ lease' = r
            /\ el' = ElWritten(r, [o EXCEPT !.pc = "renew", !.retry = 0,
                                            !.deadline = RenewDeadline,
                                            !.loop = "on", !.tick = FirstTick,
                                            !.ticked = FALSE])
    /\ UNCHANGED <<now, reg, lock, pods, podSeq, pvc, wpod, wk, window, calls, idl, rcl, adm,
                   cache, rt, api, hook, wdep, wmgr, cset>>

\* le.acquire: the attempt cannot reach the API server
ElTryError(r) ==
    /\ el[r].pc = "acquire" /\ el[r].retry = 0
    /\ \E j \in RetryPeriod..(2 * RetryPeriod) : el' = [el EXCEPT ![r].retry = j]
    /\ UNCHANGED <<now, reg, lock, pods, podSeq, pvc, wpod, wk, window, calls, idl, rcl, adm,
                   cache, lease, rt, api, hook, wdep, wmgr, cset>>

\* le.renew: the holder rewrites the record; the next cycle starts after
\* RetryPeriod and has RenewDeadline to succeed
ElRenew(r) ==
    /\ el[r].pc = "renew" /\ el[r].retry = 0
    /\ lease = r
    /\ lease' = r
    /\ el' = ElWritten(r, [el[r] EXCEPT !.retry = RetryPeriod,
                                        !.deadline = RetryPeriod + RenewDeadline])
    /\ UNCHANGED <<now, reg, lock, pods, podSeq, pvc, wpod, wk, window, calls, idl, rcl, adm,
                   cache, rt, api, hook, wdep, wmgr, cset>>

\* le.renew: the attempt fails (API server unreachable, or the record is
\* held by another identity); retried after RetryPeriod within the cycle
ElRenewError(r) ==
    /\ el[r].pc = "renew" /\ el[r].retry = 0 /\ el[r].deadline > 0
    /\ el' = [el EXCEPT ![r].retry = RetryPeriod]
    /\ UNCHANGED <<now, reg, lock, pods, podSeq, pvc, wpod, wk, window, calls, idl, rcl, adm,
                   cache, lease, rt, api, hook, wdep, wmgr, cset>>

\* le.renew: the renew cycle ran out of time; the context of runIdleLoop is
\* cancelled, the lease is released (ReleaseOnCancel) when the API server can
\* be reached, RunOrDie returns and with it Controller.Run
ElGiveUp(r) ==
    /\ el[r].pc = "renew" /\ el[r].deadline = 0
    /\ \/ /\ lease = r
          /\ lease' = ""
          /\ el' = ElWritten(r, ElOver("stopped", "cancelled"))
       \/ /\ UNCHANGED lease
          /\ el' = [el EXCEPT ![r] = ElOver("stopped", "cancelled")]
    /\ UNCHANGED <<now, reg, lock, pods, podSeq, pvc, wpod, wk, window, calls, idl, rcl, adm,
                   cache, rt, api, hook, wdep, wmgr, cset>>

\* the process of a replica dies
ElCrash(r) ==
    /\ el[r].pc # "down"
    /\ el' = [el EXCEPT ![r] = ElOver("down", "off")]
    /\ UNCHANGED <<now, reg, lock, pods, podSeq, pvc, wpod, wk, window, calls, idl, rcl, adm,
                   cache, lease, rt, api, hook, wdep, wmgr, cset>>

\* runIdleLoop of the leader: checkIdleTenants starts (ListIdleTenants), the
\* next one is due after the ticker period
IdleLoopTick(r) ==
    /\ el[r].loop = "on" /\ el[r].tick = 0
    /\ idl.pc = "idle"
    /\ LET l == Snapshots(reg, ListIdleTenants(reg, PreFilterSeconds, now)) IN
       idl' = IF l = <<>> THEN IdlIdle ELSE [pc |-> "check", list |-> l, err |-> ""]
    /\ el' = [el EXCEPT ![r].tick = IdleTickSeconds, ![r].ticked = TRUE]
    /\ UNCHANGED <<now, reg, lock, pods, podSeq, pvc, wpod, wk, window, calls, rcl, adm, cache,
                   lease, rt, api, hook, wdep, wmgr, cset>>

\* runIdleLoop: ctx.Done() is selected and the loop returns
IdleLoopExit(r) ==
    /\ el[r].loop = "cancelled"
    /\ el' = [el EXCEPT ![r].loop = "off"]
    /\ UNCHANGED <<now, reg, lock, pods, podSeq, pvc, wpod, wk, window, calls, idl, rcl, adm,
                   cache, lease, rt, api, hook, wdep, wmgr, cset>>

\* something is due at this instant on replica r
ElDue(r) ==
    \/ el[r].pc = "acquire" /\ el[r].retry = 0
    \/ el[r].pc = "renew" /\ (el[r].retry = 0 \/ el[r].deadline = 0)
    \/ el[r].loop = "on" /\ el[r].tick = 0
    \/ el[r].loop = "cancelled"

Dec(n) == IF n > 0 THEN n - 1 ELSE 0

\* one second passes on every replica; what is due happens first
SecondPasses ==
    /\ \A r \in Replicas : ~ElDue(r)
    /\ \E r \in Replicas : el[r].pc \in {"acquire", "renew"}
    /\ el' = [r \in Replicas |->
                [el[r] EXCEPT !.retry = Dec(@), !.expiry = Dec(@),
                              !.deadline = Dec(@), !.tick = Dec(@)]]
    /\ UNCHANGED <<now, reg, lock, pods, podSeq, pvc, wpod, wk, window, calls, idl, rcl, adm,
                   cache, lease, rt, api, hook, wdep, wmgr, cset>>

\* leader election and idle loop of one replica
Elect(r) ==
    \/ ElTry(r)
    \/ ElTryError(r)
    \/ ElRenew(r)
    \/ ElRenewError(r)
    \/ ElGiveUp(r)
    \/ IdleLoopTick(r)
    \/ IdleLoopExit(r)

\* the lease as seen from outside the election: it passes to another
\* replica, or is left without holder, at any time
LeaseMoves ==
    /\ \E h \in Replicas \cup {""} : h # lease /\ lease' = h
    /\ UNCHANGED <<now, reg, lock, pods, podSeq, pvc, wpod, wk, window, calls, idl, rcl, adm,
                   cache, el, rt, api, hook, wdep, wmgr, cset>>

\* -------------------------------------------------------------- warm pool
\* the wake pipeline of some tenant, holding that tenant's lock, reaches
\* GetWarmPod
WarmCall(w) ==
    /\ wk[w].pc = "idle"
    /\ wk' = [wk EXCEPT ![w] = [WkIdle EXCEPT !.pc = "warm", !.path = "lock"]]
    /\ UNCHANGED <<now, reg, lock, pods, podSeq, pvc, wpod, window, calls, idl, rcl, adm, cache,
                   lease, el, rt, api, hook, wdep, wmgr, cset>>

\* the warm-pool workload has a pod of the pool running before the calls
PoolFill ==
    /\ \A w \in Wakers : wk[w].pc = "idle"
    /\ \E p \in PoolIds : wpod[p] = "absent" /\ wpod' = [wpod EXCEPT ![p] = "true"]
    /\ UNCHANGED <<now, reg, lock, pods, podSeq, pvc, wk, window, calls, idl, rcl, adm, cache,
                   lease, el, rt, api, hook, wdep, wmgr, cset>>

\* ------------------------------------------------------ warm-pool manager
\* The Deployment "warm-pool": ver stands for the resourceVersion and goes on
\* counting when the object is deleted and created again.
NoDeployment == [ex |-> FALSE, replicas |-> 0, image |-> "", ver |-> 0]

\* Manager.target (WARM_POOL_TARGET) and Config.ZeroClawImage (ZEROCLAW_IMAGE)
WarmTarget == 2
ZeroClawImage == "zeroclaw:v2"
\* replica counts and images set by other writers of the Deployment
OtherReplicas == {1, 3}
OtherImages == {"zeroclaw:v1"}

\* locals of Manager.reconcile, and two history fields: seen is the object
\* the tick's Get returned, last the outcome of the latest finished tick
MgrIdle == [pc |-> "idle", seen |-> NoDeployment, last |-> ""]

\* the API server stores an object; an unchanged object keeps its version
Stored(old, new) ==
    IF old.ex /\ new.replicas = old.replicas /\ new.image = old.image
    THEN old
    ELSE [new EXCEPT !.ex = TRUE, !.ver = old.ver + 1]

\* A faulty update that sets the replica count alone, as ScaleWarmPool does.
EnsuredScaleOnly(existing) ==
    [existing EXCEPT !.replicas = WarmTarget]

\* EnsureWarmPoolDeployment: the object handed to Update
Ensured(existing) ==
    [existing EXCEPT !.replicas = WarmTarget, !.image = ZeroClawImage]

\* the tick of replica r ends
MgrEnd(r, outcome) ==
    [wmgr EXCEPT ![r].pc = "idle", ![r].last = outcome]

\* EnsureWarmPoolDeployment: Get the Deployment
EnsureGet(r) ==
    /\ wmgr[r].pc = "idle"
    /\ wmgr' = [wmgr EXCEPT ![r] = [pc |-> IF wdep.ex THEN "update" ELSE "create",
                                    seen |-> wdep, last |-> ""]]
    /\ UNCHANGED <<now, reg, lock, pods, podSeq, pvc, wpod, wk, window, calls, idl, rcl, adm,
                   cache, lease, el, rt, api, hook, wdep, cset>>

\* EnsureWarmPoolDeployment: Get fails with another error than NotFound
EnsureGetError(r) ==
    /\ wmgr[r].pc = "idle"
    /\ wmgr' = [wmgr EXCEPT ![r] = [pc |-> "idle", seen |-> NoDeployment,
                                    last |-> "error"]]
    /\ UNCHANGED <<now, reg, lock, pods, podSeq, pvc, wpod, wk, window, calls, idl, rcl, adm,
                   cache, lease, el, rt, api, hook, wdep, cset>>

\* EnsureWarmPoolDeployment: NotFound, Create; AlreadyExists is an error
EnsureCreate(r) ==
    /\ wmgr[r].pc = "create"
    /\ IF wdep.ex
       THEN /\ wmgr' = MgrEnd(r, "error")
            /\ UNCHANGED wdep
       ELSE /\ wdep' = Stored(wdep, [wdep EXCEPT !.replicas = WarmTarget,
                                                 !.image = ZeroClawImage])
            /\ wmgr' = MgrEnd(r, "ok")
    /\ UNCHANGED <<now, reg, lock, pods, podSeq, pvc, wpod, wk, window, calls, idl, rcl, adm,
                   cache, lease, el, rt, api, hook, cset>>

\* EnsureWarmPoolDeployment: Update of the object read; the API server
\* refuses it when the object is gone or has another version
EnsureUpdate(r) ==
    /\ wmgr[r].pc = "update"
    /\ IF wdep.ex /\ wdep.ver = wmgr[r].seen.ver
       THEN /\ wdep' = Stored(wdep, Ensured(wmgr[r].seen))
            /\ wmgr' = MgrEnd(r, "ok")
       ELSE /\ wmgr' = MgrEnd(r, "error")
            /\ UNCHANGED wdep
    /\ UNCHANGED <<now, reg, lock, pods, podSeq, pvc, wpod, wk, window, calls, idl, rcl, adm,
                   cache, lease, el, rt, api, hook, cset>>

\* EnsureWarmPoolDeployment: Create or Update cannot reach the API server
EnsureWriteError(r) ==
    /\ wmgr[r].pc \in {"create", "update"}
    /\ wmgr' = MgrEnd(r, "error")
    /\ UNCHANGED <<now, reg, lock, pods, podSeq, pvc, wpod, wk, window, calls, idl, rcl, adm,
                   cache, lease, el, rt, api, hook, wdep, cset>>

\* the steps of a warm-pool reconcile tick of replica r
Ensure(r) ==
    \/ EnsureGet(r)
    \/ EnsureGetError(r)
    \/ EnsureCreate(r)
    \/ EnsureUpdate(r)
    \/ EnsureWriteError(r)

\* another writer scales the Deployment or changes its image
DeploymentDrift ==
    /\ wdep.ex /\ wdep.ver < MaxVersion
    /\ \E n \in OtherReplicas \cup {wdep.replicas},
          i \in OtherImages \cup {wdep.image} :
          /\ n # wdep.replicas \/ i # wdep.image
          /\ wdep' = Stored(wdep, [wdep EXCEPT !.replicas = n, !.image = i])
    /\ UNCHANGED <<now, reg, lock, pods, podSeq, pvc, wpod, wk, window, calls, idl, rcl, adm,
                   cache, lease, el, rt, api, hook, wmgr, cset>>

\* another writer deletes the Deployment
DeploymentDelete ==
    /\ wdep.ex /\ wdep.ver < MaxVersion
    /\ wdep' = [NoDeployment EXCEPT !.ver = wdep.ver + 1]
    /\ UNCHANGED <<now, reg, lock, pods, podSeq, pvc, wpod, wk, window, calls, idl, rcl, adm,
                   cache, lease, el, rt, api, hook, wmgr, cset>>

\* ------------------------------------------------------------ environment
\* the platform starts a pending tenant pod and assigns its address
PodBecomeReady ==
    /\ \E p \in pods :
         /\ p.phase = "Pending" /\ ~p.term
         /\ pods' = (pods \ {p}) \cup {[p EXCEPT !.phase = "Running", !.ip = IPs[p.uid]]}
    /\ UNCHANGED <<now, reg, lock, podSeq, pvc, wpod, wk, window, calls, idl, rcl, adm, cache,
                   lease, el, rt, api, hook, wdep, wmgr, cset>>

\* a terminating pod's containers have stopped: the pod object is removed
PodTerminated ==
    /\ \E p \in pods : p.term /\ pods' = pods \ {p}
    /\ UNCHANGED <<now, reg, lock, podSeq, pvc, wpod, wk, window, calls, idl, rcl, adm, cache,
                   lease, el, rt, api, hook, wdep, wmgr, cset>>

\* the warm-pool workload starts a warm pod
WarmPodStart ==
    /\ \E p \in WarmPodIds : wpod[p] = "absent" /\ wpod' = [wpod EXCEPT ![p] = "true"]
    /\ UNCHANGED <<now, reg, lock, pods, podSeq, pvc, wk, window, calls, idl, rcl, adm, cache,
                   lease, el, rt, api, hook, wdep, wmgr, cset>>

\* the TTL of waker w's latest lock acquisition elapses; the key expires if
\* it is still the one w set
TTLElapse(w) ==
    /\ window[w]
    /\ window' = [window EXCEPT ![w] = FALSE]
    /\ lock' = IF lock[wk[w].t].held /\ lock[wk[w].t].by = w
               THEN [lock EXCEPT ![wk[w].t] = NoLock] ELSE lock
    /\ UNCHANGED <<now, reg, pods, podSeq, pvc, wpod, wk, calls, idl, rcl, adm, cache, lease,
                   el, rt, api, hook, wdep, wmgr, cset>>

Tick ==
    /\ now < MaxTime
    /\ now' = now + 1
    /\ UNCHANGED <<reg, lock, pods, podSeq, pvc, wpod, wk, window, calls, idl, rcl, adm, cache,
                   lease, el, rt, api, hook, wdep, wmgr, cset>>

\* ---------------------------------------------------------- specification
Init ==
    /\ now = 0
    /\ reg = [t \in Tenants |-> NoRec]
    /\ lock = [t \in Tenants |-> NoLock]
    /\ pods = {}
    /\ podSeq = [t \in Tenants |-> 0]
    /\ pvc = [t \in Tenants |-> FALSE]
    /\ wpod = [p \in PoolIds |-> "absent"]
    /\ wk = [w \in Wakers |-> WkIdle]
    /\ window = [w \in Wakers |-> FALSE]
    /\ calls = [w \in Wakers |-> 0]
    /\ idl = IdlIdle
    /\ rcl = [r \in Replicas |-> RclIdle]
    /\ adm = AdmIdle
    /\ cache = [t \in Tenants |-> ""]
    /\ cset = [t \in Tenants |-> 0]
    /\ lease = ""
    /\ el = [r \in Replicas |-> ElInit]
    /\ rt = [g \in Wakers |-> RtIdle]
    /\ api = [c \in Clients |-> ApiIdle]
    /\ hook = [k \in Tokens |-> ""]
    /\ wdep = NoDeployment
    /\ wmgr = [r \in Replicas |-> MgrIdle]

\* steps of a wake call that holds the lock and finds the warm pool empty
WakeSolo(w) ==
    \/ WakeStart(w)
    \/ WakeAcquire(w)
    \/ WakeCreateRec(w)
    \/ WakePVC(w)
    \/ WakeWarmList(w)
    \/ WakeWarmClaim(w)
    \/ WakeCreatePod(w)
    \/ WakeWaitReady(w)
    \/ WakeCommit(w)
    \/ WakeRelease(w)

\* all steps of a wake call
WakeStep(w) ==
    \/ WakeSolo(w)
    \/ WakeDeleteWarm(w)
    \/ WakePoll(w)

\* failures of a wake call after it has created the pod
WakeLateFault(w) ==
    \/ WakeWaitTimeout(w)
    \/ WakeCommitError(w)

\* all infrastructure errors and timeouts of a wake call
WakeFault(w) ==
    \/ WakePVCError(w)
    \/ WakeCreatePodError(w)
    \/ WakeLateFault(w)
    \/ WakePollTimeout(w)

\* The whole controller: one request handler issuing wake calls one after
\* the other (so the lock is never contended), the administrative API, the
\* idle controller, the reconciler and the platform, with an empty warm pool.
\* A wake call fails only after it has created the pod: by the readiness
\* timeout or by an error of the registry write.
LifeWakers == {"w1"}

\* the replica whose reconciler runs next to the tenant life cycle
SoloReplicas == {"r1"}

Next ==
    \/ \E w \in LifeWakers : WakeSolo(w)
    \/ \E w \in LifeWakers : WakeAgain(w)
    \/ \E w \in LifeWakers : WakeLateFault(w)
    \/ \E t \in Tenants, v \in IdleInputs : ApiCreateTenant(t, v)
    \/ \E t \in Tenants, v \in PatchInputs : ApiUpdateTenant(t, v)
    \/ \E t \in Tenants : ApiUpdateActivity(t)
    \/ \E t \in Tenants : DeleteGet(t)
    \/ DeletePodStep
    \/ DeletePVCStep
    \/ DeleteRegStep
    \/ DeleteFault
    \/ IdleList
    \/ IdleCheck
    \/ IdleUpdate
    \/ \E r \in SoloReplicas : Reconcile(r) \/ ReconcileFault(r)
    \/ PodBecomeReady
    \/ PodTerminated
    \/ Tick

Spec == Init /\ [][Next]_vars

\* Concurrent wake calls for a cold tenant whose pod becomes ready: every
\* waker issues one call, no infrastructure error or timeout occurs.
NextWake ==
    \/ \E w \in Wakers : WakeStep(w)
    \/ \E w \in Wakers : TTLElapse(w)
    \/ \E t \in Tenants, v \in IdleInputs : ApiCreateTenant(t, v)
    \/ PodBecomeReady
    \/ WarmPodStart

SpecWake == Init /\ [][NextWake]_vars

\* The same, with every handler goroutine and the platform scheduled: a step
\* that stays possible is eventually taken.
SpecWakeLive == Init /\ [][NextWake]_vars /\ WF_vars(NextWake)

\* Concurrent and repeated wake calls with infrastructure errors, timeouts
\* and lock expiry.
NextWakeFaults ==
    \/ \E w \in Wakers : WakeStep(w)
    \/ \E w \in Wakers : WakeAgain(w)
    \/ \E w \in Wakers : WakeFault(w)
    \/ \E w \in Wakers : TTLElapse(w)
    \/ \E t \in Tenants, v \in IdleInputs : ApiCreateTenant(t, v)
    \/ PodBecomeReady
    \/ WarmPodStart

SpecWakeFaults == Init /\ [][NextWakeFaults]_vars

\* The reconcilers of all replicas next to one tenant's wake calls, the
\* router's cache writes, the idle controller and the platform.
NextReconcile ==
    \/ \E w \in LifeWakers : WakeSolo(w)
    \/ \E w \in LifeWakers : WakeAgain(w)
    \/ \E w \in LifeWakers : RouterCacheSet(w)
    \/ IdleList
    \/ IdleCheck
    \/ IdleUpdate
    \/ \E r \in Replicas : Reconcile(r)
    \/ \E r \in Replicas : ReconcileFault(r)
    \/ PodBecomeReady
    \/ PodTerminated
    \/ LeaseMoves
    \/ Tick

SpecReconcile == Init /\ [][NextReconcile]_vars

\* the replica whose reconcile loop keeps running
Steady == "r1"

\* The same, where the reconcile loop of one replica keeps running and its
\* calls to the cluster and to the registry do not fail for ever.
SpecReconcileLive ==
    /\ Init /\ [][NextReconcile]_vars
    /\ WF_vars(ReconcileList(Steady))
    /\ SF_vars(ReconcileCheck(Steady))
    /\ SF_vars(ReconcileReset(Steady))

\* Leader election among the replicas, with crashes and with attempts that
\* cannot reach the API server, and the idle loop of the elected replica.
NextLease ==
    \/ \E r \in Replicas : Elect(r)
    \/ \E r \in Replicas : ElCrash(r)
    \/ SecondPasses

SpecLease == Init /\ [][NextLease]_vars

\* The same, where time goes on, an attempt that is due over and over
\* reaches the API server in the end, and a started loop runs.
SpecLeaseLive ==
    /\ Init /\ [][NextLease]_vars
    /\ WF_vars(SecondPasses)
    /\ \A r \in Replicas :
        /\ SF_vars(ElTry(r))
        /\ SF_vars(ElRenew(r))
        /\ WF_vars(IdleLoopTick(r))
        /\ WF_vars(IdleLoopExit(r))

\* Concurrent GetWarmPod calls of the wake pipelines of different tenants
\* over a pool of up to two warm pods, up to the deletion of the claimed pod.
NextWarm ==
    \/ PoolFill
    \/ \E w \in Wakers : WarmCall(w)
    \/ \E w \in Wakers : WakeWarmList(w)
    \/ \E w \in Wakers : WakeWarmClaim(w)
    \/ \E w \in Wakers : WakeDeleteWarm(w)

SpecWarm == Init /\ [][NextWarm]_vars

\* The same, where every wake call that has started runs its warm-pod steps
\* to the end and the pool keeps being filled.
SpecWarmLive ==
    /\ Init /\ [][NextWarm]_vars
    /\ \A w \in Wakers :
          WF_vars(WakeWarmList(w) \/ WakeWarmClaim(w) \/ WakeDeleteWarm(w))
    /\ WF_vars(PoolFill)

\* The same, where the client of a call may go away and the process
\* serving a call may die while the call holds the lock.
NextWakeExit ==
    \/ NextWakeFaults
    \/ \E w \in Wakers : WakeCancel(w)
    \/ \E w \in Wakers : WakeCrash(w)

SpecWakeExit == Init /\ [][NextWakeExit]_vars

\* request bodies of PATCH /tenants/{id}
PatchBodies ==
    {[hasTok |-> FALSE, tok |-> "", hasIdle |-> TRUE, idle |-> v] : v \in PatchInputs}
      \cup {[hasTok |-> TRUE, tok |-> k, hasIdle |-> FALSE, idle |-> 0] :
                k \in Tokens \cup {""}}
      \cup {[hasTok |-> FALSE, tok |-> "", hasIdle |-> FALSE, idle |-> 0]}

\* The administrative API called by concurrent clients, every response seen
\* by its client; no tenant is deleted.
NextApi ==
    \/ \E c \in Clients, t \in Tenants, v \in IdleInputs, k \in Tokens \cup {""} :
          HandlerCreateTenant(c, t, v, k)
    \/ \E c \in Clients : HandlerCreateTenantHook(c)
    \/ \E c \in Clients : HandlerListTenants(c)
    \/ \E c \in Clients, t \in Tenants : HandlerGetTenant(c, t)
    \/ \E c \in Clients, t \in Tenants : HandlerGetBotToken(c, t)
    \/ \E c \in Clients, t \in Tenants, b \in PatchBodies :
          HandlerUpdateTenant(c, t, b.hasTok, b.tok, b.hasIdle, b.idle)
    \/ \E c \in Clients : HandlerUpdateTenantToken(c)
    \/ \E c \in Clients : HandlerUpdateTenantHook(c)
    \/ \E c \in Clients : HandlerUpdateTenantIdle(c)
    \/ \E c \in Clients : HandlerUpdateTenantGet(c)
    \/ \E c \in Clients, t \in Tenants : HandlerUpdateActivity(c, t)

SpecApi == Init /\ [][NextApi]_vars

\* the client that creates the tenants to be deleted
Creators == {"c1"}

\* every request to the administrative API has been answered
Answered == \A c \in Clients : api[c].pc = "idle"

\* DELETE /tenants/{id} next to one request handler's wake calls, the
\* router's cache write after a wake call, and the platform. The tenant was
\* created with a bot token before the DELETE arrives and no POST /tenants
\* arrives while the DELETE runs; no call of the DELETE handler fails.
NextDelete ==
    \/ \E c \in Creators, t \in Tenants, k \in Tokens :
          adm.pc = "idle" /\ HandlerCreateTenant(c, t, 0, k)
    \/ \E c \in Creators : HandlerCreateTenantHook(c)
    \/ \E w \in LifeWakers : WakeSolo(w)
    \/ \E w \in LifeWakers : RouterCacheSet(w)
    \/ \E t \in Tenants : Answered /\ DeleteGet(t)
    \/ DeletePodStep
    \/ DeletePVCStep
    \/ DeleteRegStep
    \/ DeleteHookStep
    \/ PodBecomeReady
    \/ PodTerminated

SpecDelete == Init /\ [][NextDelete]_vars

\* The router: one goroutine per inbound update, each with its own wake call
\* to the orchestrator, next to a client that creates the tenant with a bot
\* token, and the platform. A wake call fails only after it has created the
\* pod.
NextRouter ==
    \/ \E g \in Wakers, t \in Tenants, b \in Bodies : RouterReceive(g, t, b)
    \/ \E g \in Wakers : RouterAck(g)
    \/ \E g \in Wakers : RouterLookup(g)
    \/ \E g \in Wakers : RouterToken(g)
    \/ \E g \in Wakers : RouterNotify(g)
    \/ \E g \in Wakers : rt[g].pc = "wake" /\ WakeSolo(g)
    \/ \E g \in Wakers : rt[g].pc = "wake" /\ WakePoll(g)
    \/ \E g \in Wakers : rt[g].pc = "wake" /\ WakeLateFault(g)
    \/ \E g \in Wakers : RouterWakeFailed(g)
    \/ \E g \in Wakers : rt[g].pc = "wake" /\ RouterCacheSet(g)
    \/ \E g \in Wakers : RouterForwardSkip(g)
    \/ \E g \in Wakers : RouterForward(g)
    \/ \E g \in Wakers : RouterForwardFailed(g)
    \/ \E g \in Wakers : RouterActivity(g)
    \/ \E c \in Creators, t \in Tenants, k \in Tokens : HandlerCreateTenant(c, t, 0, k)
    \/ \E c \in Creators : HandlerCreateTenantHook(c)
    \/ PodBecomeReady

SpecRouter == Init /\ [][NextRouter]_vars

\* The warm-pool managers of all replicas, each running reconcile ticks, next
\* to other writers of the warm-pool Deployment.
NextPool ==
    \/ \E r \in Replicas : EnsureGet(r)
    \/ \E r \in Replicas : EnsureGetError(r)
    \/ \E r \in Replicas : EnsureCreate(r)
    \/ \E r \in Replicas : EnsureUpdate(r)
    \/ \E r \in Replicas : EnsureWriteError(r)
    \/ DeploymentDrift
    \/ DeploymentDelete

SpecPool == Init /\ [][NextPool]_vars

\* idle_timeout_s values a request may carry
BudgetInputs == {-60, 0, 900}

\* POST /tenants and PATCH /tenants/{id} with any idle_timeout_s, next to a
\* wake call that creates the record of an unknown tenant.
NextBudget ==
    \/ \E c \in Clients, t \in Tenants, v \in BudgetInputs : HandlerCreateTenant(c, t, v, "")
    \/ \E c \in Clients, t \in Tenants, v \in BudgetInputs :
          HandlerUpdateTenant(c, t, FALSE, "", TRUE, v)
    \/ \E c \in Clients : HandlerUpdateTenantIdle(c)
    \/ \E c \in Clients : HandlerUpdateTenantGet(c)
    \/ \E w \in LifeWakers : WakeSolo(w)
    \/ PodBecomeReady

SpecBudget == Init /\ [][NextBudget]_vars

\* One request handler issuing wake calls one after the other, where the
\* readiness wait of a call may time out and the pod may become ready later.
NextTimeout ==
    \/ \E w \in LifeWakers : WakeSolo(w)
    \/ \E w \in LifeWakers : WakeAgain(w)
    \/ \E w \in LifeWakers : WakeWaitTimeout(w)
    \/ \E t \in Tenants, v \in IdleInputs : ApiCreateTenant(t, v)
    \/ PodBecomeReady
    \/ Tick

SpecTimeout == Init /\ [][NextTimeout]_vars

\* a tenant other than those of Tenants, woken by calls of its own
Other == "bob"

\* the addresses of removed pods: handed out to a pod incarnation before,
\* and neither held by a pod nor set aside for a pod that is starting
FreeIPs(ps) ==
    {IPs[i] : i \in {j \in 1..MaxPods : \E t \in Tenants : j <= podSeq[t]}}
        \ ({p.ip : p \in ps} \cup {IPs[p.uid] : p \in {q \in ps : q.tenant \in Tenants}})

\* a wake call for tenant Other creates its pod, and the platform starts the
\* pod at the address of a removed pod
OtherTenantPod ==
    /\ PodsNamed(pods, podName(Other)) = {}
    /\ \E a \in FreeIPs(pods) :
          pods' = pods \cup {[name |-> podName(Other), tenant |-> Other, uid |-> 0,
                              phase |-> "Running", ip |-> a, node |-> "",
                              term |-> FALSE, ev |-> FALSE]}
    /\ UNCHANGED <<now, reg, lock, podSeq, pvc, wpod, wk, window, calls, idl, rcl, adm, cache,
                   lease, el, rt, api, hook, wdep, wmgr, cset>>

\* handleTelegramUpdate returned: the goroutine is gone and the next event
\* gets a goroutine and a wake call of its own
RouterDone(g) ==
    /\ rt[g].pc = "end"
    /\ rt' = [rt EXCEPT ![g] = RtIdle]
    /\ wk' = [wk EXCEPT ![g] = WkIdle]
    /\ UNCHANGED <<now, reg, lock, pods, podSeq, pvc, wpod, window, calls, idl, rcl, adm, cache,
                   lease, el, api, hook, wdep, wmgr, cset>>

\* the handling of an event takes far less than a tick of the clock: time
\* passes between events
TickBetweenEvents ==
    /\ \A g \in Wakers : rt[g].pc \in {"idle", "end"}
    /\ Tick

\* The router's goroutines for the text messages of one tenant, the idle
\* controller and the platform, which also runs the pod of another tenant.
NextReuse ==
    \/ \E g \in Wakers, t \in Tenants : RouterReceive(g, t, "message")
    \/ \E g \in Wakers : RouterAck(g)
    \/ \E g \in Wakers : RouterLookup(g)
    \/ \E g \in Wakers : RouterToken(g)
    \/ \E g \in Wakers : rt[g].pc = "wake" /\ WakeSolo(g)
    \/ \E g \in Wakers : rt[g].pc = "wake" /\ RouterCacheSet(g)
    \/ \E g \in Wakers : RouterForward(g)
    \/ \E g \in Wakers : RouterForwardFailed(g)
    \/ \E g \in Wakers : RouterActivity(g)
    \/ \E g \in Wakers : RouterDone(g)
    \/ IdleList
    \/ IdleCheck
    \/ IdleUpdate
    \/ PodBecomeReady
    \/ PodTerminated
    \/ OtherTenantPod
    \/ TickBetweenEvents

SpecReuse == Init /\ [][NextReuse]_vars

\* One tenant's wake calls, some of which give up waiting for the pod, next
\* to the steady replica's reconciler, the idle controller and the platform.
NextOrphan ==
    \/ \E w \in LifeWakers : WakeSolo(w)
    \/ \E w \in LifeWakers : WakeAgain(w)
    \/ \E w \in LifeWakers : WakeWaitTimeout(w)
    \/ IdleList
    \/ IdleCheck
    \/ IdleUpdate
    \/ Reconcile(Steady)
    \/ PodBecomeReady
    \/ PodTerminated
    \/ Tick

SpecOrphan == Init /\ [][NextOrphan]_vars

\* a step of a wake call that has been received and has not returned
WakeInFlight(w) ==
    /\ wk[w].pc \notin {"idle", "done"}
    /\ WakeSolo(w) \/ WakeWaitTimeout(w)

\* The same, where a received wake call runs to its return, the reconcile
\* loop and the idle loop keep running, the platform starts and removes
\* pods and time passes; new wake calls arrive only if clients send them.
SpecOrphanLive ==
    /\ Init /\ [][NextOrphan]_vars
    /\ \A w \in LifeWakers : WF_vars(WakeInFlight(w))
    /\ WF_vars(Reconcile(Steady))
    /\ WF_vars(IdleList) /\ WF_vars(IdleCheck) /\ WF_vars(IdleUpdate)
    /\ WF_vars(PodBecomeReady) /\ WF_vars(PodTerminated) /\ WF_vars(Tick)

\* ------------------------------------------------------------- properties
\* steps 5-8 of the wake pipeline: warm-pool claim, create pod, wait, commit
InSteps5to8(w) ==
    wk[w].pc \in {"warm", "claim", "delete_warm", "create_pod", "wait", "commit"}

\* the wake call of w has returned an address
Returned(w) == wk[w].pc = "done" /\ wk[w].res \notin {"", "error"}

\* C1: while the TTL window opened by a wake-lock acquisition is open, the
\* platform receives at most one create-pod call for that tenant, however
\* many wake calls run concurrently against the tenant.
C1_AtMostOneCreateCall == \A w \in Wakers : calls[w] <= 1

\* C2: two wake calls for one tenant are never both executing steps 5-8
\* while the TTL windows of both their acquisitions are open.
C2_SingleFlight ==
    \A a, b \in Wakers :
        (a # b /\ wk[a].t = wk[b].t /\ InSteps5to8(a) /\ InSteps5to8(b))
            => ~(window[a] /\ window[b])

\* every wake call that has returned has returned an address, the record is
\* Running, and the address is the one committed to the registry
SameAddress ==
    \A w \in Wakers :
        wk[w].pc = "done" =>
            /\ wk[w].res \notin {"", "error"}
            /\ reg[wk[w].t].ex
            /\ reg[wk[w].t].status = StatusRunning
            /\ reg[wk[w].t].pod_ip = wk[w].res

C4_OnePodPerTenant ==
    \A t \in Tenants :
        /\ Cardinality(PodsOfTenant(pods, t)) <= 1
        /\ \A p \in PodsOfTenant(pods, t) : p.name = podName(t)

\* two wake calls have both called CreateTenantPod and wait for one pod
C4_TwoCallersOnePod ==
    \E a, b \in Wakers :
        /\ a # b /\ wk[a].t = wk[b].t
        /\ wk[a].pc \in {"wait", "commit"} /\ wk[b].pc \in {"wait", "commit"}
        /\ Cardinality(PodsOfTenant(pods, wk[a].t)) = 1

\* C5: a step of a wake call whose acquire returned false, the failed
\* acquire included, changes neither registry, lock, pods, volumes nor warm
\* pool; after the failed acquire its only step is to return, either the
\* address of the Running record or a timeout.
C5_PollOnlyReads ==
    [][\A w \in Wakers :
        (wk'[w] # wk[w] /\ wk'[w].path = "poll") =>
            /\ UNCHANGED <<reg, lock, pods, podSeq, pvc, wpod>>
            /\ wk[w].path = "poll" =>
                /\ wk'[w].pc = "done"
                /\ \/ wk'[w].res = "error"
                   \/ /\ reg[wk[w].t].status = StatusRunning
                      /\ reg[wk[w].t].pod_ip # ""
                      /\ wk'[w].res = reg[wk[w].t].pod_ip]_vars

\* a call whose acquire returned false has returned the address
C5_PollReturned ==
    \E w \in Wakers : Returned(w) /\ wk[w].path = "poll"

\* C6: every Running record has a pod name and an address, every Idle or
\* Terminated record has neither.
C6_AddressCoupling ==
    \A t \in Tenants :
        reg[t].ex =>
            /\ reg[t].status = StatusRunning =>
                  reg[t].pod_name # "" /\ reg[t].pod_ip # ""
            /\ reg[t].status \in {StatusIdle, StatusTerminated} =>
                  reg[t].pod_name = "" /\ reg[t].pod_ip = ""

\* the idle controller has deleted a pod and the record is Idle
C6_DemotedRecord ==
    \E t \in Tenants :
        reg[t].ex /\ reg[t].status = StatusIdle /\ EvictedUid(pods, t) # 0

\* C7: the idle controller deletes the pod or writes the record of a Running
\* tenant only when the idle budget has elapsed since the tenant's latest
\* activity.
C7_NoEvictionBeforeBudget ==
    [][(idl' # idl /\ idl.pc \in {"check", "update"}
            /\ (pods' # pods \/ reg' # reg)) =>
        LET rec == reg[Head(idl.list).t] IN
        ~(rec.ex /\ rec.status = StatusRunning /\ StillActive(rec, now))]_vars

C9_FastPathFrame ==
    [][\A w \in Wakers :
        (wk[w].pc \in {"idle", "done"} /\ wk'[w] # wk[w]
            /\ reg[wk'[w].t].ex /\ reg[wk'[w].t].status = StatusRunning
            /\ reg[wk'[w].t].pod_ip # "") =>
            /\ wk'[w].pc = "done"
            /\ wk'[w].res = reg[wk'[w].t].pod_ip
            /\ UNCHANGED <<reg, lock, pods, podSeq, pvc, wpod>>]_vars

\* a call has returned on the fast path
C9_FastReturned ==
    \E w \in Wakers : Returned(w) /\ wk[w].path = "fast"

\* C10: a wake call that began on an Idle record after the idle controller
\* had deleted the tenant's pod never commits the address of that pod.
C10_WakeAfterEvictionGetsNewPod ==
    \A w \in Wakers :
        (wk[w].ev # 0 /\ wk[w].pc \in {"release", "done"}
            /\ wk[w].res \notin {"", "error"}) =>
            wk[w].res # IPs[wk[w].ev]

\* seconds since the last activity stored in a record or a listed copy
IdleFor(rec) == (now - rec.la) * TickSeconds

\* the idle budget of a record or a listed copy, 5 minutes when it is zero
Budget(rec) == IF rec.idle = 0 THEN 5 * 60 ELSE rec.idle

C12_MissingPodReset ==
    [][\A r \in Replicas : rcl'[r] # rcl[r] =>
        /\ rcl[r].pc = "check" =>
            IF PodExists(pods, podName(Head(rcl[r].list)))
            THEN rcl'[r].pc # "reset" /\ UNCHANGED <<reg, cache>>
            ELSE rcl'[r].pc = "reset" \/ UNCHANGED <<reg, cache>>
        /\ rcl[r].pc = "reset" =>
            LET t == Head(rcl[r].list) IN
            \/ /\ reg'[t].ex /\ reg'[t].status = StatusIdle
               /\ reg'[t].pod_name = "" /\ reg'[t].pod_ip = ""
               /\ \A u \in Tenants \ {t} : reg'[u] = reg[u]
               /\ cache' \in {cache, [cache EXCEPT ![t] = ""]}
            \/ UNCHANGED <<reg, cache>>]_vars

\* a pass found the Running record of a tenant whose pod is gone while the
\* router still caches the tenant's address
C12_FoundMissingPod ==
    \E r \in Replicas :
        /\ rcl[r].pc = "reset"
        /\ LET t == Head(rcl[r].list) IN
            /\ reg[t].status = StatusRunning /\ reg[t].pod_ip # ""
            /\ ~PodExists(pods, podName(t))
            /\ cache[t] = reg[t].pod_ip

\* status and pod fields of a record
PodFields(rec) == <<rec.status, rec.pod_name, rec.pod_ip>>

\* C14: the reconcile pass is idempotent on status and pod fields. A pass
\* lists only Running records, so a pass over a registry that an earlier pass
\* has demoted finds nothing to do; every reset writes the same fields
\* (Idle, no pod name, no address) whichever replica performs it; and a reset
\* of a record that another pass has already demoted leaves the status and
\* the pod fields of every record as they were.
C14_ReconcileIdempotent ==
    [][\A r \in Replicas : rcl'[r] # rcl[r] =>
        /\ rcl[r].pc = "idle" =>
            \A i \in 1..Len(rcl'[r].list) :
                reg[rcl'[r].list[i]].status = StatusRunning
        /\ rcl[r].pc = "reset" =>
            LET t == Head(rcl[r].list) IN
            /\ reg' # reg => PodFields(reg'[t]) = <<StatusIdle, "", "">>
            /\ PodFields(reg[t]) = <<StatusIdle, "", "">> =>
                \A u \in Tenants : PodFields(reg'[u]) = PodFields(reg[u])]_vars

\* two replicas found the same pod missing; one has demoted the record and
\* the other is about to demote it again
C14_SecondDemotion ==
    \E r1, r2 \in Replicas :
        /\ r1 # r2
        /\ rcl[r2].pc = "reset" /\ rcl[r1].pc = "idle"
        /\ LET t == Head(rcl[r2].list) IN
            /\ reg[t].ex /\ PodFields(reg[t]) = <<StatusIdle, "", "">>
            /\ ~PodExists(pods, podName(t))
            /\ idl.pc = "idle" /\ cache[t] # ""

\* the replicas whose runIdleLoop is running with a live context
Looping == {r \in Replicas : el[r].loop = "on"}

NoLeader == \A r \in Replicas : el[r].pc # "renew"

\* the process of some replica is running
SomeAlive == \E r \in Replicas : el[r].pc # "down"

\* C19: whenever no replica is leading while some replica is alive, some
\* live replica eventually leads and runs idle ticks (unless the last live
\* replica dies first), also when the live replicas are ones that led before
\* and lost the lease.
C19_LeaderEventually ==
    (NoLeader /\ SomeAlive) ~>
        \/ \E r \in Replicas : el[r].pc = "renew" /\ el[r].ticked
        \/ ~SomeAlive

\* the record of t says Running while the cluster has no pod of t
Drifted(t) ==
    reg[t].ex /\ reg[t].status = StatusRunning /\ ~PodExists(pods, podName(t))

\* C13: a record that is Running while its pod is absent from the cluster
\* is eventually Idle with empty pod name and address, as long as the
\* reconcile loop of one replica keeps running, whoever holds the leader
\* lease and also when nobody holds it.
C13_DriftRepaired ==
    \A t \in Tenants :
        Drifted(t) ~> (reg[t].ex /\ PodFields(reg[t]) = <<StatusIdle, "", "">>)

\* a Running record without pod, left behind by an idle tick that deleted
\* the pod and did not write the registry, at a moment when neither the
\* steady replica nor any other holds the lease
C13_DriftWithoutLeader ==
    \E t \in Tenants :
        /\ Drifted(t) /\ EvictedUid(pods, t) = 0 /\ podSeq[t] > 0
        /\ idl.pc = "idle" /\ lease = ""
        /\ rcl[Steady].pc = "idle"

\* the callers whose GetWarmPod has returned, and those it returned a pod to
WarmReturned == {w \in Wakers : wk[w].pc \in {"delete_warm", "create_pod"}}
WarmGot == {w \in WarmReturned : wk[w].node # ""}

\* C15: no warm pod is handed to two claimers. A relabel succeeds only on a
\* pod that is still labelled warm=true and labels it consuming, a pod never
\* gets the label true back, and the pods (and nodes) held by two callers
\* differ.
C15_NoDoubleClaim ==
    /\ [](\A w1, w2 \in Wakers : w1 # w2 =>
            /\ wk[w1].warm # "" => wk[w1].warm # wk[w2].warm
            /\ wk[w1].node # "" => wk[w1].node # wk[w2].node)
    /\ [][\A p \in PoolIds :
            /\ wpod'[p] = "true" => wpod[p] \in {"true", "absent"}
            /\ (wpod[p] # "consuming" /\ wpod'[p] = "consuming") =>
                /\ wpod[p] = "true"
                /\ Cardinality({w \in Wakers : wk'[w].warm = p}) = 1]_vars

\* two callers that both listed the whole pool hold different pods
C15_TwoClaimed ==
    \E w1, w2 \in Wakers :
        /\ wk[w1].pc = "delete_warm" /\ wk[w2].pc = "delete_warm"
        /\ wk[w1].warm = "wp1" /\ wk[w2].warm = "wp2"

Min(a, b) == IF a < b THEN a ELSE b

WarmOfNode(n) == {p \in PoolIds : NodeOf(p) = n}

\* the steps of wake call w around the warm-pool claim
Relabels(w) == wk[w].pc = "claim" /\ wk'[w].pc = "delete_warm"
Misses(w) == wk[w].pc = "claim" /\ wk'[w].pc = "create_pod"
DeletesWarm(w) == wk[w].pc = "delete_warm" /\ wk'[w].pc = "create_pod"
CallsCreate(w) == wk[w].pc = "create_pod" /\ wk'[w].pc = "wait"

\* relabel, then delete with zero grace, then the create-pod call with the
\* node of the claimed pod; no node when nothing was claimed
ClaimOrder(w) ==
    /\ Relabels(w) =>
        /\ wk[w].path = "lock"
        /\ wpod[wk'[w].warm] = "true" /\ wpod'[wk'[w].warm] = "consuming"
        /\ wk'[w].node = NodeOf(wk'[w].warm)
        /\ pods' = pods
    /\ Misses(w) => wk'[w].node = "" /\ wpod' = wpod /\ pods' = pods
    /\ DeletesWarm(w) =>
        /\ wpod[wk[w].warm] = "consuming"
        /\ wpod'[wk[w].warm] \in {"deleted", "consuming"}
        /\ wk'[w].node = wk[w].node /\ wk[w].node = NodeOf(wk[w].warm)
        /\ pods' = pods
    /\ CallsCreate(w) =>
        /\ wk[w].node # "" =>
            \A p \in WarmOfNode(wk[w].node) : wpod[p] \in {"consuming", "deleted"}
        /\ wpod' = wpod

Exits(w) == wk[w].pc \notin {"done", "gone"} /\ wk'[w].pc \in {"done", "gone"}

\* C20: a wake call that acquired the lock leaves it free when it exits, on
\* the success path and on every failure path, so that the next wake for the
\* tenant can acquire it at once; and a lock whose holder crashed has its
\* TTL running, whose expiry frees it.
C20_ReleasedOnExit ==
    /\ [][\A w \in Wakers :
            /\ (Exits(w) /\ wk[w].path = "lock" /\ wk'[w].res # "crashed") =>
                    /\ ~lock'[wk[w].t].held
                    /\ AcquireWakeLock(lock', wk[w].t)
            /\ (window[w] /\ ~window'[w] /\ wk'[w] = wk[w]) =>
                    ~(lock'[wk[w].t].held /\ lock'[wk[w].t].by = w)]_vars
    /\ [](\A w \in Wakers : \A t \in Tenants :
            (wk[w].pc = "gone" /\ lock[t].held /\ lock[t].by = w) => window[w])

\* client c's POST /tenants for tenant t is answered, or goes on to the
\* webhook registration, in this step
Creates(c, t) ==
    /\ api[c].pc = "idle" /\ api'[c] # api[c]
    /\ api'[c].op = "create" /\ api'[c].t = t

\* the clients whose latest POST /tenants for t was not refused
Winners(t) ==
    {c \in Clients : /\ api[c].op = "create" /\ api[c].t = t
                     /\ api[c].code = 201 \/ api[c].pc = "create_hook"}

\* C21: POST /tenants for an id that has a record is answered 409 and leaves
\* the registry unchanged; a create that is not refused found no record and
\* stored its own; of the creates for one id at most one is not refused.
C21_DuplicateRejected ==
    /\ [][\A c \in Clients, t \in Tenants :
            Creates(c, t) =>
                /\ reg[t].ex => (api'[c].code = 409 /\ reg' = reg)
                /\ api'[c].code # 409 => (~reg[t].ex /\ reg'[t].ex)]_vars
    /\ [](\A t \in Tenants : Cardinality(Winners(t)) <= 1)

\* C21 witness: of two creates for one id one was answered 201 and the other 409
C21_OneWinner ==
    \E a, b \in Clients, t \in Tenants :
        /\ a # b
        /\ api[a].op = "create" /\ api[a].t = t /\ api[a].code = 201
        /\ api[b].op = "create" /\ api[b].t = t /\ api[b].code = 409
        /\ reg[t].ex

\* tenant t has no record and no DELETE is in progress: t was never created,
\* or the DELETE that removed its record has returned 204
Deleted(t) == ~reg[t].ex /\ adm.pc = "idle"

\* C22: once DELETE /tenants/{id} has returned, the address cache has no
\* entry for the tenant and no webhook at the messaging platform names it.
C22_NothingLeftAfterDelete ==
    \A t \in Tenants :
        Deleted(t) => (cache[t] = "" /\ \A k \in Tokens : hook[k] # t)

\* the DELETE handler returns 204 for tenant t in this step
Returns204(t) ==
    /\ adm.t = t /\ adm'.pc = "idle"
    /\ adm.pc = "hook" \/ (adm.pc = "reg" /\ ~reg'[t].ex)

\* the tenant pods of t that are not being deleted
LivePods(ps, t) == {p \in PodsOfTenant(ps, t) : ~p.term}

\* C23: when DELETE /tenants/{id} returns 204, the tenant has no record, no
\* tenant pod other than one that is terminating, and no volume.
C23_AllGoneAfterDelete ==
    [][\A t \in Tenants :
          Returns204(t) => (~reg'[t].ex /\ LivePods(pods', t) = {} /\ ~pvc'[t])]_vars

\* the registries that differ from r only in the tenants' bot tokens
TokenVariants(r) ==
    {[t \in Tenants |-> [r[t] EXCEPT !.tok = f[t]]] : f \in [Tenants -> Tokens \cup {""}]}

\* what the endpoints that answer with records answer from registry r
PublicResponses(r) ==
    [list |-> ListResponse(r), get |-> [t \in Tenants |-> RecordResponse(r, t)]]

\* the operations of the public read and write endpoints
PublicOps == {"create", "list", "get", "patch"}

\* client c's GET /tenants/{id}/bot_token for t is answered
GetsBotToken(c, t) ==
    /\ api[c].pc = "idle" /\ api'[c] # api[c]
    /\ api'[c].op = "bot_token" /\ api'[c].t = t

\* C24: the responses of POST /tenants, GET /tenants, GET /tenants/{id} and
\* PATCH /tenants/{id} do not depend on any tenant's bot token: two registries
\* that differ only in bot tokens give identical responses, and every record
\* in a response of these endpoints has an empty BotToken; only
\* GET /tenants/{id}/bot_token answers with the stored token.
C24_TokenNeverInPublicResponse ==
    /\ [](\A r2 \in TokenVariants(reg) : PublicResponses(r2) = PublicResponses(reg))
    /\ [](\A c \in Clients :
             api[c].op \in PublicOps => \A b \in api[c].body : b.BotToken = "")
    /\ [][\A c \in Clients, t \in Tenants :
             (GetsBotToken(c, t) /\ api'[c].code = 200) =>
                 api'[c].body = {[BotToken |-> reg[t].tok]}]_vars

\* a tenant with a bot token: one client holds its record from a public
\* endpoint, another holds its token from the bot_token endpoint
C24_TokenOnlyFromSecretEndpoint ==
    \E a, b \in Clients, t \in Tenants :
        /\ reg[t].ex /\ reg[t].tok # ""
        /\ api[a].op \in {"get", "patch"} /\ api[a].t = t /\ api[a].code = 200
        /\ api[a].body # {} /\ api[a].pc = "idle"
        /\ api[b].op = "bot_token" /\ api[b].t = t /\ api[b].code = 200
        /\ api[b].body = {[BotToken |-> reg[t].tok]}

\* goroutine g has started backend work for its update: a cache lookup, a
\* token fetch, a notification, a wake call or a forward
BackendWork(g) ==
    \/ rt[g].pc \in {"lookup", "token", "notify", "wake", "forward", "activity"}
    \/ wk[g] # WkIdle
    \/ rt[g].fwd # ""
    \/ rt[g].sent > 0
    \/ rt[g].tok # ""

\* the step in which goroutine g's update is acknowledged
Acknowledges(g) == rt[g].code = 0 /\ rt'[g].code = 200

\* C25: for every inbound update the router has sent the HTTP 200
\* acknowledgement before it does any cache lookup, token fetch, notification,
\* wake call or forward for that update; the acknowledgement is sent while
\* the wake call has not started.
C25_AckBeforeBackendWork ==
    /\ [](\A g \in Wakers : BackendWork(g) => rt[g].code = 200)
    /\ [][\A g \in Wakers : Acknowledges(g) => (~BackendWork(g) /\ wk'[g] = WkIdle)]_vars

\* an acknowledged update whose wake call is waiting for the pod
C25_AckedWhileWaking ==
    \E g \in Wakers : rt[g].code = 200 /\ rt[g].pc = "wake" /\ wk[g].pc = "wait"

\* C26: after the forward of an update failed at transport level the router
\* does nothing more for that update: no reply is delivered and the tenant's
\* last_active_at is not updated.
C26_AbortAfterFailedForward ==
    [][\A g \in Wakers : rt[g].fwd = "failed" => rt'[g] = rt[g]]_vars

\* client c's PUT /tenants/{id}/activity for t is answered
TouchesActivity(c, t) ==
    /\ api[c].pc = "idle" /\ api'[c] # api[c]
    /\ api'[c].op = "activity" /\ api'[c].t = t

\* C27: PUT /tenants/{id}/activity for an id without a record leaves the
\* registry without a record for the id; for an existing record it changes
\* last_active_at only, to a value not earlier than the previous one.
C27_TouchFrame ==
    [][\A c \in Clients, t \in Tenants :
          TouchesActivity(c, t) =>
              IF reg[t].ex
              THEN /\ reg'[t] = [reg[t] EXCEPT !.la = reg'[t].la]
                   /\ reg'[t].la >= reg[t].la
              ELSE ~reg'[t].ex]_vars

\* the Deployment d exists with the target replica count and the configured image
Converged(d) == d.ex /\ d.replicas = WarmTarget /\ d.image = ZeroClawImage

\* the step that ends a reconcile tick of replica r without error
TickSucceeds(r) == wmgr[r].pc # "idle" /\ wmgr'[r].pc = "idle" /\ wmgr'[r].last = "ok"

\* C28: after a warm-pool reconcile tick that completes without error the
\* warm-pool Deployment exists with WarmTarget replicas and the configured
\* image, whether the tick found it missing, with another replica count or
\* with another image; a tick that found it so already changes nothing.
C28_EnsureConverges ==
    [][\A r \in Replicas :
          TickSucceeds(r) =>
              /\ Converged(wdep')
              /\ Converged(wmgr[r].seen) => wdep' = wdep]_vars

\* one finished tick found the Deployment missing, another found it with
\* another replica count and another image; both ended without error
C28_AllThreeDrifts ==
    \E a, b \in Replicas :
        /\ wmgr[a].pc = "idle" /\ wmgr[a].last = "ok" /\ ~wmgr[a].seen.ex
        /\ wmgr[b].pc = "idle" /\ wmgr[b].last = "ok" /\ wmgr[b].seen.ex
        /\ wmgr[b].seen.replicas # WarmTarget /\ wmgr[b].seen.image # ZeroClawImage
        /\ Converged(wdep)

\* C29: the idle budget (idle_timeout_s) of every tenant record is a positive
\* integer in every reachable registry state.
C29_IdleBudgetPositive ==
    \A t \in Tenants : reg[t].ex => reg[t].idle > 0

\* the step is a step of replica r's reconcile pass
ReconcileStep(r) == rcl'[r] # rcl[r]

\* C30: a reconcile pass creates no pod, no volume and no wake lock, and it
\* leaves untouched every Running record whose pod exists: a record it writes
\* is not a Running record with an existing pod.
C30_ReconcileFrame ==
    [][\A r \in Replicas :
          ReconcileStep(r) =>
              /\ pods' = pods /\ wpod' = wpod /\ pvc' = pvc /\ lock' = lock
              /\ \A t \in Tenants :
                    reg'[t] # reg[t] =>
                        ~(reg[t].status = StatusRunning /\ PodExists(pods, podName(t)))]_vars

\* C31: a record's status follows Idle, Provisioning, Running, Idle: no step
\* takes a record from Idle to Running.
C31_IdleNeverDirectlyRunning ==
    [][\A t \in Tenants :
          ~(reg[t].ex /\ reg[t].status = StatusIdle /\ reg'[t].status = StatusRunning)]_vars

\* the readiness wait of wake call w times out in this step
TimesOut(w) == wk[w].pc = "wait" /\ wk'[w].pc = "release" /\ wk'[w].res = "error"

\* C32: a wake whose readiness wait times out returns an error, leaves the
\* created pod in place and the record not Running, and releases the lock; a
\* later wake that finds the pod creates no second pod, and what it commits
\* is the address of that pod once it is ready.
C32_TimeoutLeavesPodForNextWake ==
    [][\A w \in LifeWakers :
          LET t == wk[w].t IN
          /\ TimesOut(w) =>
                /\ pods' = pods /\ PodsNamed(pods, podName(t)) # {}
                /\ reg' = reg /\ reg[t].status # StatusRunning
          /\ (wk[w].pc = "release" /\ wk'[w].pc = "done") =>
                /\ lock'[t] = NoLock
                /\ wk[w].res = "error" => (wk'[w].res = "error" /\ ~IsRunning(reg'[t]))
          /\ (wk[w].pc = "create_pod" /\ wk'[w].pc = "wait"
                /\ PodsNamed(pods, podName(t)) # {}) =>
                (pods' = pods /\ podSeq' = podSeq)
          /\ (wk[w].pc = "commit" /\ reg' # reg) =>
                /\ reg'[t].status = StatusRunning
                /\ \E p \in PodReady(pods, t) : reg'[t].pod_ip = p.ip]_vars

\* a wake call holds the address of the first pod of a tenant whose record
\* was auto-created by an earlier call that did not commit
C32_AttachedAfterTimeout ==
    \E w \in LifeWakers :
        LET t == wk[w].t IN
        /\ wk[w].pc = "commit" /\ ~wk[w].recNil
        /\ reg[t].ex /\ reg[t].status = StatusProvisioning
        /\ podSeq[t] = 1
        /\ \E p \in PodReady(pods, t) : p.uid = 1 /\ p.ip = wk[w].ip

\* the idle tick's DeletePod for the listed tenant fails in this step
DeleteFails ==
    /\ idl.pc = "check" /\ idl' # idl
    /\ ~StillActive(Head(idl.list), now)
    /\ idl'.err = Head(idl.list).t /\ pods' = pods

\* C33: when the pod delete of an idle eviction fails, the idle tick does not
\* write the record and goes on to the next listed tenant, and the tenant is
\* listed again by the next tick; the tick goes on to the status update only
\* after a delete that succeeded.
C33_DeleteErrorSkipsUpdate ==
    [][/\ DeleteFails =>
            LET c == Head(idl.list) IN
            /\ reg' = reg
            /\ idl'.pc # "update"
            /\ idl'.list = IF Len(idl.list) <= 1 THEN <<>> ELSE Tail(idl.list)
            /\ (reg[c.t].status = StatusRunning /\ reg[c.t].la = c.la) =>
                  c.t \in ListIdleTenants(reg', PreFilterSeconds, now)
       /\ (idl.pc = "check" /\ idl'.pc = "update") =>
            /\ idl'.err = idl.err
            /\ \A p \in PodsNamed(pods', Head(idl.list).pod_name) : p.term]_vars

\* the pod delete for a tenant has just failed: the record is Running with
\* its pod fields and its old last_active_at, the pod is not terminating, and
\* the next scan lists the tenant again
C33_SkippedAfterDeleteError ==
    \E t \in Tenants :
        /\ idl.err = t /\ idl.pc = "idle"
        /\ reg[t].status = StatusRunning /\ reg[t].pod_name = podName(t)
        /\ \E p \in PodsNamed(pods, podName(t)) : ~p.term
        /\ ~StillActive(reg[t], now)
        /\ t \in ListIdleTenants(reg, PreFilterSeconds, now)

\* C34: a release of the wake lock removes the key only if the releasing
\* wake call is its current holder: the release of a call whose key had
\* expired leaves a key that another call set afterwards in place.
C34_ReleaseOnlyByHolder ==
    [][\A w \in Wakers :
          LET t == wk[w].t IN
          (wk[w].pc = "release" /\ wk'[w].pc = "done"
              /\ lock[t].held /\ lock[t].by # w)
            => lock'[t] = lock[t]]_vars

\* a registry write of the idle controller or of a replica's reconciler
IdleWrite(t) ==
    \/ idl.pc = "update" /\ idl' # idl /\ Head(idl.list).t = t
    \/ \E r \in Replicas : rcl[r].pc = "reset" /\ rcl'[r] # rcl[r] /\ Head(rcl[r].list) = t

\* C35: the reconciler and the idle controller never overwrite a Running
\* status that a wake committed after they read the record or checked the
\* pod: a write of Idle by either never hits a Running record whose pod,
\* at the record's address, is live.
C35_IdleWriteNeverHitsLivePod ==
    [][\A t \in Tenants :
          (IdleWrite(t) /\ reg[t].status = StatusRunning /\ reg'[t].status = StatusIdle)
            => ~(\E p \in PodsNamed(pods, podName(t)) :
                    ~p.term /\ p.ip # "" /\ p.ip = reg[t].pod_ip)]_vars

\* a registry write by a step of wake call w past its record creation, by the
\* idle controller, by a reconciler or by an activity touch
LateWrite(t) ==
    \/ \E w \in Wakers \cup LifeWakers :
          wk[w].t = t /\ wk[w].pc = "commit" /\ wk'[w] # wk[w]
    \/ IdleWrite(t)
    \/ \E c \in Clients : TouchesActivity(c, t)
    \/ \E g \in DOMAIN rt : rt'[g] # rt[g] /\ rt[g].t = t

\* C36: once the record of a tenant is removed, no write of a wake already
\* past its record creation, of an idle tick, of a reconcile pass or of an
\* activity touch brings a record for the tenant back.
C36_NoRecordFromLateWrite ==
    [][\A t \in Tenants : (~reg[t].ex /\ reg'[t].ex) => ~LateWrite(t)]_vars

\* wake call w returns address a in this step
ReturnsAddress(w, a) ==
    /\ wk[w].res = "" /\ wk'[w].res = a
    /\ a \notin {"", "error"}

\* C37: whenever a wake call returns an address, on the fast, the lock or
\* the polling path, a pod of the tenant exists at that moment, is not
\* terminating and has that address.
C37_ReturnedAddressIsLivePod ==
    [][\A w \in Wakers \cup LifeWakers : \A a \in {wk'[w].res} :
          ReturnsAddress(w, a) =>
              \E p \in PodsNamed(pods', podName(wk[w].t)) : ~p.term /\ p.ip = a]_vars

\* a pod of tenant t exists while the record of t is not Running
Unreferenced(t) ==
    PodsNamed(pods, podName(t)) # {} /\ ~(reg[t].ex /\ reg[t].status = StatusRunning)

\* C38: every tenant pod that exists while its tenant's record is not
\* Running is eventually deleted or eventually referenced by a Running
\* record.
C38_OrphanEventuallyRepaired ==
    \A t \in Tenants :
        Unreferenced(t) ~>
            \/ PodsNamed(pods, podName(t)) = {}
            \/ reg[t].ex /\ reg[t].status = StatusRunning /\ reg[t].pod_name = podName(t)

\* goroutine g took the address it forwards to from the address cache
FromCache(g) == rt[g].pc = "forward" /\ wk[g].pc = "idle"

\* C39: the router never forwards an event received for a tenant to a pod
\* of another tenant, also when the tenant's pod was evicted while its
\* address-cache entry is live: the pod that answers a forward to a cached
\* address is a pod of the tenant the event was received for.
C39_ForwardOnlyToOwnPod ==
    [][\A g \in Wakers :
          (FromCache(g) /\ rt'[g].fwd = "ok")
            => \A p \in PodAt(pods, rt[g].ip) : p.tenant = rt[g].t]_vars

\* C40: every warm pod that a wake relabels to warm=consuming is eventually
\* deleted, also when the wake's delete call fails: no pod stays labelled
\* warm=consuming for ever.
C40_ConsumingEventuallyDeleted ==
    \A p \in PoolIds : (wpod[p] = "consuming") ~> (wpod[p] = "deleted")

====
